---- MODULE Spec2Model ----
(***************************************************************************)
(* Model of the deployer web application (deployment/deployer.py), its     *)
(* background deployment thread (deployment/task.py) and its set of        *)
(* deployments (deployment/deployment.py).                                 *)
(*                                                                         *)
(* Request handlers, Deploy_Task threads and the engine's stop/graceful    *)
(* listener run as separate threads.  A handler or a thread is split into  *)
(* several actions where it reads shared state in one place and acts on it *)
(* in another (the admission test and the registration in Deployer.deploy, *)
(* the stop-flag test and the bus call in Deploy_Task._publish, the loop   *)
(* and the final assignment in Deployer._stop_threads).                    *)
(*                                                                         *)
(* The variables request, response and fs_ops describe the step just       *)
(* taken: the HTTP request a handler was called with, the response it      *)
(* returned in that step and the file operations it performed.             *)
(***************************************************************************)
EXTENDS Integers, Sequences, FiniteSets, TLC

VARIABLES
    deployments,      \* Deployer._deployments: the lazily read Deployments set
    disk,             \* deployment.json below args.deploy_path
    key_files,        \* key files below args.deploy_path: path -> generation
    key_counter,      \* number of keys Key.generate has made so far
    deploy_progress,  \* Deployer._deploy_progress: name -> state, message, thread
    tasks,            \* the Deploy_Task thread objects
    handlers,         \* the position of each request-handling thread
    stopper,          \* the position of the stop/graceful listener
    work_files,       \* the secret files there are in the working copies
    pending,          \* the requests and engine events that have yet to arrive
    request,          \* the HTTP request handled by the step just taken
    response,         \* the HTTP response returned by the step just taken
    fs_ops            \* the file operations of the step just taken

vars == <<deployments, disk, key_files, key_counter, deploy_progress, tasks,
          handlers, stopper, work_files, pending, request, response, fs_ops>>

-----------------------------------------------------------------------------
(* Bounds of the model *)

\* Requests the web application receives at most in one behaviour.
MaxRequests == 2
\* 'stop' and 'graceful' events the engine publishes at most in one behaviour.
MaxStops == 1
\* Artifacts a Jenkins build lists at most.
MaxArtifacts == 1

Names == {"monetdb-import", "test"}
Handlers == {"h1", "h2"}
\* A thread object for every request that can start one.
Threads == 1 .. MaxRequests

\* The value None of a progress record's 'thread'.
NoThread == 0

Range(f) == {f[x] : x \in DOMAIN f}

-----------------------------------------------------------------------------
(* Deployments and Deployment (deployment/deployment.py) *)

\* A deployment configuration as Deployer._create_deployment builds it, as
\* the record of the values of its keys.  The web application and the task
\* read the fields that are parameters here; the others have the values of a
\* form that leaves them out.  artifacts and jenkins_git are held by their
\* truth value.
\* secret_files is an OrderedDict: a sequence of <<name, content>> with
\* distinct names.
Deployment(name, deploy_key, jenkins_job, artifacts, script, services, bigboat_url, bigboat_key, secret_files, git_path) ==
    [name |-> name, deploy_key |-> deploy_key, jenkins_job |-> jenkins_job,
     artifacts |-> artifacts, script |-> script, services |-> services,
     bigboat_url |-> bigboat_url, bigboat_key |-> bigboat_key,
     secret_files |-> secret_files, git_path |-> git_path,
     git_url |-> "", git_branch |-> "master", jenkins_git |-> FALSE,
     jenkins_states |-> <<>>, bigboat_compose |-> ""]

\* os.path.join(git_path, name): the path of a secret file in a working copy.
SecretPath(git_path, name) == <<git_path, name>>

\* Deployer._generate_deploy_key: the path of the key file of a deployment.
KeyFile(name) == <<"key", name>>

\* Deployments._deployments is a dict in insertion order: a sequence of
\* deployments with distinct names.
DeploymentNames(set) == {set[i].name : i \in DOMAIN set}

\* Deployments.__contains__
Contains(set, name) == name \in DeploymentNames(set)

\* Deployments.get; callers test Contains first (KeyError otherwise).
Get(set, name) == set[CHOOSE i \in DOMAIN set : set[i].name = name]

\* Mutant: a duplicate name replaces the stored deployment.
Add_replace(set, deployment) ==
    IF Contains(set, deployment.name)
    THEN [i \in DOMAIN set |->
             IF set[i].name = deployment.name THEN deployment ELSE set[i]]
    ELSE Append(set, deployment)

\* Deployments.add: a duplicate name is ignored.
Add(set, deployment) ==
    IF Contains(set, deployment.name) THEN set ELSE Append(set, deployment)

\* Mutant: the deployment added last is removed when the name is in the set.
Discard_last(set, name) ==
    IF Contains(set, name) THEN SubSeq(set, 1, Len(set) - 1) ELSE set

\* Deployments.discard: an absent name is ignored.
Discard(set, name) == SelectSeq(set, LAMBDA d : d.name # name)

\* Deployments.__init__: the configurations are added in order.
RECURSIVE AddAll(_, _, _)
AddAll(configs, i, set) ==
    IF i > Len(configs) THEN set
    ELSE AddAll(configs, i + 1, Add(set, configs[i]))

\* current[name] = data in an OrderedDict: a new name goes to the end.
SetSecret(current, name, data) ==
    IF \E i \in DOMAIN current : current[i][1] = name
    THEN [i \in DOMAIN current |->
             IF current[i][1] = name THEN <<name, data>> ELSE current[i]]
    ELSE Append(current, <<name, data>>)

\* Values of Python as the JSON module knows them: a str, a bool, a list of
\* values, a dict in insertion order as the sequence of its <<key, value>>.
Str(value) == [type |-> "str", value |-> value]
Bool(value) == [type |-> "bool", value |-> value]
List(values) == [type |-> "list", value |-> values]
Dict(items) == [type |-> "dict", value |-> items]

\* The keys of a dict in order, and the value at a key of it.
Keys(dict) == [i \in DOMAIN dict.value |-> dict.value[i][1]]
Item(dict, key) ==
    dict.value[CHOOSE i \in DOMAIN dict.value : dict.value[i][1] = key][2]

\* json.dump: the JSON text of a value, as its syntax tree; the members of
\* an object are in the order of the dict.
RECURSIVE json_dump(_)
json_dump(value) ==
    CASE value.type = "str" -> [json |-> "string", text |-> value.value]
      [] value.type = "bool" ->
            [json |-> IF value.value THEN "true" ELSE "false"]
      [] value.type = "list" ->
            [json |-> "array",
             items |-> [i \in DOMAIN value.value |->
                           json_dump(value.value[i])]]
      [] value.type = "dict" ->
            [json |-> "object",
             members |-> [i \in DOMAIN value.value |->
                             <<value.value[i][1],
                               json_dump(value.value[i][2])>>]]

\* OrderedDict(pairs): a key that comes again keeps its place and takes the
\* later value.
RECURSIVE ordered_dict(_, _, _)
ordered_dict(pairs, i, items) ==
    IF i > Len(pairs) THEN Dict(items)
    ELSE ordered_dict(pairs, i + 1,
                      SetSecret(items, pairs[i][1], pairs[i][2]))

\* json.load(file, object_pairs_hook=OrderedDict)
RECURSIVE json_load(_)
json_load(text) ==
    CASE text.json = "string" -> Str(text.text)
      [] text.json = "true" -> Bool(TRUE)
      [] text.json = "false" -> Bool(FALSE)
      [] text.json = "array" ->
            List([i \in DOMAIN text.items |-> json_load(text.items[i])])
      [] text.json = "object" ->
            ordered_dict([i \in DOMAIN text.members |->
                             <<text.members[i][1],
                               json_load(text.members[i][2])>>], 1, <<>>)

\* Deployer.FIELDS: the names of the fields, and the defaults declared.
FIELDS ==
    <<"name", "git_path", "git_url", "git_branch", "jenkins_job",
      "jenkins_git", "jenkins_states", "artifacts", "deploy_key", "script",
      "services", "bigboat_url", "bigboat_key", "bigboat_compose",
      "secret_files">>

FieldDefaults ==
    [git_branch |-> Str("master"), jenkins_git |-> Bool(TRUE),
     jenkins_states |-> List(<<Str("SUCCESS")>>)]

\* field_config.get("default", '')
FieldDefault(field_name) ==
    IF field_name \in DOMAIN FieldDefaults
    THEN FieldDefaults[field_name] ELSE Str("")

\* Mutant: a field that is not in the stored object is set to the empty
\* string, whatever default is declared for it.
with_defaults_empty(config, fields) ==
    Dict(config.value
            \o SelectSeq([f \in DOMAIN fields |-> <<fields[f], Str("")>>],
                         LAMBDA item : item[1] \notin Range(Keys(config))))

\* The loop of Deployments.read over the fields, which have distinct names:
\* each field that is not a key of the stored object is set to its default,
\* in the order of the fields.
with_defaults(config, fields) ==
    Dict(config.value
            \o SelectSeq([f \in DOMAIN fields |->
                             <<fields[f], FieldDefault(fields[f])>>],
                         LAMBDA item : item[1] \notin Range(Keys(config))))

\* Deployment(**data): a dict is a deployment by the value of its name.
Named(config) == [name |-> Item(config, "name").value, config |-> config]

\* The loop of Deployments.read over the objects of the file, from object i
\* on: each gets the defaults of the fields.
RECURSIVE read_configs(_, _, _, _)
read_configs(objects, fields, i, configs) ==
    IF i > Len(objects) THEN configs
    ELSE read_configs(objects, fields, i + 1,
            Append(configs, Named(with_defaults(objects[i], fields))))

\* The dicts of the deployments of a set.
RECURSIVE values(_, _, _)
values(set, i, dicts) ==
    IF i > Len(set) THEN dicts
    ELSE values(set, i + 1, Append(dicts, set[i].config))

\* Deployments.read: the objects of the file with the defaults of the
\* fields, added to a set in order; an empty set when the file does not
\* exist.
read(file, fields) ==
    IF file.exists
    THEN values(AddAll(read_configs(json_load(file.text).value, fields, 1,
                                    <<>>), 1, <<>>), 1, <<>>)
    ELSE <<>>

\* Mutant: the fields of a deployment that have an empty value are not
\* written.
write_sparse(set) ==
    [exists |-> TRUE,
     text |-> json_dump(List([i \in DOMAIN set |->
                 Dict(SelectSeq(set[i].value,
                                LAMBDA item : ~(/\ item[2].type = "str"
                                                /\ item[2].value = "")))]))]

\* Deployments.write: the list of the dicts of the deployments replaces the
\* file.
write(set) == [exists |-> TRUE, text |-> json_dump(List(set))]

\* The keys of the dict of Deployer._create_deployment in order, and the
\* kind of value each has in the record of a deployment.
ConfigKeys ==
    <<"name", "git_path", "git_url", "git_branch", "deploy_key",
      "jenkins_job", "jenkins_git", "jenkins_states", "artifacts", "script",
      "services", "bigboat_url", "bigboat_key", "bigboat_compose",
      "secret_files">>

Typed(key, value) ==
    CASE key \in {"jenkins_git", "artifacts"} -> Bool(value)
      [] key \in {"jenkins_states", "services"} ->
            List([i \in DOMAIN value |-> Str(value[i])])
      [] key = "secret_files" ->
            Dict([i \in DOMAIN value |-> <<value[i][1], Str(value[i][2])>>])
      [] OTHER -> Str(value)

Bare(value) ==
    CASE value.type = "list" ->
            [i \in DOMAIN value.value |-> value.value[i].value]
      [] value.type = "dict" ->
            [i \in DOMAIN value.value |->
                <<value.value[i][1], value.value[i][2].value>>]
      [] OTHER -> value.value

\* The dict of the record of a deployment, and the record of a dict.
DictOf(deployment) ==
    Dict([i \in DOMAIN ConfigKeys |->
             <<ConfigKeys[i], Typed(ConfigKeys[i], deployment[ConfigKeys[i]])>>])

RecordOf(dict) ==
    [key \in Range(Keys(dict)) |-> Bare(Item(dict, key))]

\* The records of the dicts of a set.
RECURSIVE RecordsOf(_, _, _)
RecordsOf(dicts, i, records) ==
    IF i > Len(dicts) THEN records
    ELSE RecordsOf(dicts, i + 1, Append(records, RecordOf(dicts[i])))

DictsOf(set) == [i \in DOMAIN set |-> DictOf(set[i])]

\* The file of the deploy path is held as the list of the records that
\* Deployments.read makes of it with Deployer.FIELDS: Read and Write are read
\* and write on that list.
\* Deployments.read: an empty set when the file does not exist.
Read(file) == IF file.exists THEN file.configs ELSE <<>>

\* Deployments.write: the whole file is replaced.
Write(set) == [exists |-> TRUE, configs |-> set]

\* The property Deployer.deployments: reads the file on first use.
Deployments == IF deployments.loaded THEN deployments.set ELSE Read(disk)

\* The state of Deployer._deployments after the property was used.
Loaded(set) == [loaded |-> TRUE, set |-> set]
NotLoaded == [loaded |-> FALSE, set |-> <<>>]

-----------------------------------------------------------------------------
(* The progress map (Deployer._deploy_progress) *)

EmptyProgress == [n \in {} |-> [state |-> "", message |-> <<>>, thread |-> NoThread]]

Message(text, arg) == <<text, arg>>

\* Mutant: the record is stored under every name of the map.
SetItem_every(map, name, record) == [n \in DOMAIN map \cup {name} |-> record]

\* self._deploy_progress[name] = record
SetItem(map, name, record) ==
    [n \in DOMAIN map \cup {name} |-> IF n = name THEN record ELSE map[n]]

\* Mutant: the admission test never finds a thread.
ProgressThread_unchecked(map, name) == NoThread

\* self._deploy_progress.get(name, {'thread': None})['thread']
ProgressThread(map, name) ==
    IF name \in DOMAIN map THEN map[name].thread ELSE NoThread

\* Mutant: the thread stays in the record on success and error.
set_deploy_progress_keeps_thread(map, name, state, message) ==
    SetItem(map, name,
            [state |-> state, message |-> message, thread |-> map[name].thread])

\* Deployer._set_deploy_progress, for a name that has an entry.
set_deploy_progress(map, name, state, message) ==
    SetItem(map, name,
            [state |-> state, message |-> message,
             thread |-> IF state \in {"success", "error"}
                        THEN NoThread ELSE map[name].thread])

-----------------------------------------------------------------------------
(* Deploy_Task (deployment/task.py) *)

\* No build: last_build = None in Deploy_Task._deploy.
NoBuild == [found |-> FALSE, artifacts |-> 0]

NoDeployment ==
    Deployment("", <<"key", "">>, "", FALSE, "", <<>>, "", "", <<>>, "")

\* A slot that holds no thread object.
NoTask ==
    [name |-> "", deployment |-> NoDeployment, pc |-> "none", phase |-> "-",
     idx |-> 0, stop |-> FALSE, last_build |-> NoBuild, error |-> "",
     error_arg |-> "",
     log |-> <<>>]

\* Deploy_Task.__init__: the thread object before start().
NewTask(deployment) ==
    [NoTask EXCEPT !.name = deployment.name, !.deployment = deployment,
                   !.pc = "initial"]

\* An entry of the history of a task: an event handed to bus.publish, or an
\* external call the pipeline made.
Published(state, message) ==
    [kind |-> "publish", state |-> state, message |-> message]
Called(step, arg) ==
    [kind |-> "call", state |-> "", message |-> Message(step, arg)]

Log(tk, entry) == [tk EXCEPT !.log = Append(@, entry)]

\* threading.Thread.is_alive: started and run() has not ended.
IsAlive(tk) == tk.pc \notin {"none", "initial", "done", "failed"}

\* The thread has been started and run() has ended.
IsFinished(tk) == tk.pc \in {"done", "failed"}

\* The next call of self._publish: its test of the stop flag comes first.
At(tk, point, idx) == [tk EXCEPT !.pc = point, !.phase = "check", !.idx = idx]

\* run() returns: the pipeline ended, or Thread_Interrupt was caught.
Return(tk) == [tk EXCEPT !.pc = "done", !.phase = "-"]

\* An exception run() does not catch ends the thread.
Die(tk) == [tk EXCEPT !.pc = "failed", !.phase = "-"]

\* Mutant: the error is swallowed and the task reports success.
Raise_success(tk, error) == At([tk EXCEPT !.error = error], "success", 0)

\* RuntimeError or ValueError in _deploy: run() publishes 'error'.
Raise(tk, error) == At([tk EXCEPT !.error = error], "error", 0)

\* The outcome of an external call: it returns, raises an error run() catches
\* (RuntimeError, ValueError), or raises any other exception.
Outcome(tk, result, error, next) ==
    CASE result = "ok" -> next
      [] result = "error" -> Raise(tk, error)
      [] result = "exception" -> Die(tk)

ArtifactPath(i) == <<"data1.txt", "data2.txt", "data3.txt">>[i]

\* Mutant: the Jenkins job is checked whether or not one is configured.
EnterDeploy_always_jenkins(tk) == At(tk, "jenkins", 0)

\* Deploy_Task._deploy up to its first publish: the Jenkins job decides.
EnterDeploy(tk) ==
    IF tk.deployment.jenkins_job # ""
    THEN At(tk, "jenkins", 0)
    ELSE At([tk EXCEPT !.last_build = NoBuild], "git", 0)

\* After the dashboard step, or without one: the terminal publish.
Finish(tk) == At(tk, "success", 0)

\* After the restarts: the dashboard when a BigBoat URL is configured.
AfterServices(tk) ==
    IF tk.deployment.bigboat_url # ""
    THEN [tk EXCEPT !.pc = "bigboat", !.phase = "call", !.idx = 0]
    ELSE Finish(tk)

\* The loop over self._deployment["services"] from index i on: empty names
\* are skipped.
NextService(tk, i) ==
    LET services == tk.deployment.services
        rest == {j \in i .. Len(services) : services[j] # ""}
    IN  IF rest = {}
        THEN AfterServices(tk)
        ELSE At(tk, "service", CHOOSE j \in rest : \A k \in rest : j <= k)

\* After the secret files: the script when one is configured.
AfterSecretFiles(tk) ==
    IF tk.deployment.script # "" THEN At(tk, "script", 0) ELSE NextService(tk, 1)

\* The secret files the task writes: those with a non-empty name.
WrittenSecrets(tk) ==
    {i \in DOMAIN tk.deployment.secret_files :
        tk.deployment.secret_files[i][1] # ""}

\* Mutant: without artifacts the secret files are skipped.
AfterRepository_skips_secrets(tk) ==
    IF tk.last_build.found /\ tk.deployment.artifacts
    THEN IF tk.last_build.artifacts = 0
         THEN Raise(tk, "Jenkins build has no artifacts")
         ELSE At(tk, "artifacts", 0)
    ELSE AfterSecretFiles(tk)

\* After the repository update: the artifacts of the build, when there is a
\* build and the deployment wants them, else the secret files.
AfterRepository(tk) ==
    IF tk.last_build.found /\ tk.deployment.artifacts
    THEN IF tk.last_build.artifacts = 0
         THEN Raise(tk, "Jenkins build has no artifacts")
         ELSE At(tk, "artifacts", 0)
    ELSE At(tk, "secret", 0)

\* The loop over the artifacts of the build.
NextArtifact(tk, i) ==
    IF i <= tk.last_build.artifacts THEN At(tk, "artifact", i) ELSE At(tk, "secret", 0)

-----------------------------------------------------------------------------
(* The steps of a Deploy_Task thread *)

NoResponse ==
    [status |-> 0, body |-> "", state |-> "", message |-> <<>>, key |-> 0]

\* A parameter of a request that may be left out: the values given for it.
NotGiven == <<>>
Given(value) == <<value>>

\* The fields of a form that the handlers of create and edit read.  The value
\* of secret_files_names stands as the list of its fields between spaces
\* (str.split(' ') and ' '.join are inverses); secret_files holds the
\* uploaded parts as <<filename, data>>.
NoForm ==
    [jenkins_job |-> "", script |-> "", services |-> "", git_path |-> "",
     deploy_key |-> NotGiven, secret_files_names |-> NotGiven,
     secret_files |-> <<>>]

\* A request: the method, the exposed page and its parameters.
Request(method, page, name) ==
    [method |-> method, page |-> page, name |-> Given(name),
     old_name |-> NotGiven, form |-> NoForm]

NoRequest ==
    [method |-> "", page |-> "", name |-> NotGiven, old_name |-> NotGiven,
     form |-> NoForm]

\* A step that returns no HTTP response and touches no file.
Quiet == request' = NoRequest /\ response' = NoResponse /\ fs_ops' = <<>>

store == <<deployments, disk, key_files, key_counter, pending>>

\* The working copy after a step of a task: _add_secret_files writes the
\* files with a name, in order, until one cannot be written.
SecretFilesWritten(before, after) ==
    LET written == WrittenSecrets(before)
        path(i) == SecretPath(before.deployment.git_path,
                              before.deployment.secret_files[i][1])
    IN  IF before.pc # "secret" \/ after.pc = "failed"
        THEN {work_files}
        ELSE IF after.error = ""
             THEN {work_files \cup {path(i) : i \in written}}
             ELSE {work_files \cup {path(i) : i \in {j \in written : j < k}} :
                      k \in written}

\* Mutant: _publish does not test the stop flag.
PublishCheck_unstoppable(t) ==
    /\ tasks[t].phase = "check"
    /\ tasks' = [tasks EXCEPT ![t] = [@ EXCEPT !.phase = "deliver"]]
    /\ UNCHANGED <<store, deploy_progress, handlers, stopper, work_files>>
    /\ Quiet

\* Deploy_Task._publish, first half: the test of the stop flag.  A stopped
\* thread raises Thread_Interrupt, which run() catches unless it is already
\* handling an error.
PublishCheck(t) ==
    /\ tasks[t].phase = "check"
    /\ tasks' = [tasks EXCEPT ![t] =
                    IF tasks[t].stop
                    THEN IF tasks[t].pc = "error" THEN Die(@) ELSE Return(@)
                    ELSE [@ EXCEPT !.phase = "deliver"]]
    /\ UNCHANGED <<store, deploy_progress, handlers, stopper, work_files>>
    /\ Quiet

\* The task with the event it hands to bus.publish in its history.
Publishing(t, state, message) == Log(tasks[t], Published(state, message))

\* Deploy_Task._publish, second half: bus.publish calls the listener
\* Deployer._set_deploy_progress in this thread.  Without an entry for the
\* name the listener raises KeyError and the bus raises ChannelFailures, which
\* run() does not catch.  Otherwise the thread goes on to the external calls
\* that follow, up to its next publish: one of the tasks in after.
Deliver(t, state, message, after) ==
    /\ tasks[t].phase = "deliver"
    /\ IF tasks[t].name \in DOMAIN deploy_progress
       THEN /\ deploy_progress' =
                   set_deploy_progress(deploy_progress, tasks[t].name,
                                       state, message)
            /\ \E tk \in after : tasks' = [tasks EXCEPT ![t] = tk]
       ELSE /\ UNCHANGED deploy_progress
            /\ tasks' = [tasks EXCEPT ![t] =
                            Die(Log(@, Published(state, message)))]
    /\ work_files' \in SecretFilesWritten(tasks[t], tasks'[t])
    /\ UNCHANGED <<store, handlers, stopper>>
    /\ Quiet

\* Deployment.check_jenkins: a build with some artifacts, ValueError, or an
\* exception of the Jenkins client.
JenkinsOutcomes ==
    {[result |-> "ok", artifacts |-> n] : n \in 0 .. MaxArtifacts}
        \cup {[result |-> r, artifacts |-> 0] : r \in {"error", "exception"}}

CheckJenkins(tk, o) ==
    LET called == Log(tk, Called("check_jenkins", tk.deployment.jenkins_job))
    IN  Outcome(called, o.result, "Jenkins build rejected",
                At([called EXCEPT !.last_build =
                        [found |-> TRUE, artifacts |-> o.artifacts]], "git", 0))

DeliverJenkins(t) ==
    /\ tasks[t].pc = "jenkins"
    /\ LET message == Message("Checking Jenkins build state", "")
           ev == Publishing(t, "progress", message)
       IN  Deliver(t, "progress", message,
                   {CheckJenkins(ev, o) : o \in JenkinsOutcomes})

\* Git_Repository.from_source
UpdateRepository(tk, o) ==
    LET called == Log(tk, Called("from_source", ""))
    IN  Outcome(called, o, "Could not update Git repository",
                AfterRepository(called))

DeliverRepository(t) ==
    /\ tasks[t].pc = "git"
    /\ LET message == Message("Updating Git repository", "")
           ev == Publishing(t, "progress", message)
       IN  Deliver(t, "progress", message,
                   {UpdateRepository(ev, o) : o \in {"ok", "error", "exception"}})

DeliverArtifacts(t) ==
    /\ tasks[t].pc = "artifacts"
    /\ LET message == Message("Collecting artifacts", "")
           ev == Publishing(t, "progress", message)
       IN  Deliver(t, "progress", message,
                   {NextArtifact(ev, 1)})

\* Deploy_Task._add_artifacts: the download and the write of one artifact.
CollectArtifact(tk, o) ==
    LET called == Log(tk, Called("artifact", ArtifactPath(tk.idx)))
    IN  Outcome(called, o, "", NextArtifact(called, tk.idx + 1))

DeliverArtifact(t) ==
    /\ tasks[t].pc = "artifact"
    /\ LET message == Message("Collecting artifact", ArtifactPath(tasks[t].idx))
           ev == Publishing(t, "progress", message)
       IN  Deliver(t, "progress", message,
                   {CollectArtifact(ev, o) : o \in {"ok", "exception"}})

\* Deploy_Task._add_secret_files: IOError becomes RuntimeError.
WriteSecretFiles(tk, o) ==
    IF WrittenSecrets(tk) = {}
    THEN AfterSecretFiles(tk)
    ELSE LET called == Log(tk, Called("secret_files", ""))
         IN  Outcome(called, o, "Could not write secret file",
                     AfterSecretFiles(called))

DeliverSecretFiles(t) ==
    /\ tasks[t].pc = "secret"
    /\ LET message == Message("Writing secret files", "")
           ev == Publishing(t, "progress", message)
       IN  Deliver(t, "progress", message,
                   {WriteSecretFiles(ev, o) :
                       o \in IF WrittenSecrets(tasks[t]) = {}
                             THEN {"ok"} ELSE {"ok", "error"}})

\* subprocess.check_output of the script: CalledProcessError becomes
\* RuntimeError; OSError (no such command) is not caught.
RunScript(tk, o) ==
    LET called == Log(tk, Called("script", tk.deployment.script))
    IN  Outcome(called, o, "Could not run script", NextService(called, 1))

DeliverScript(t) ==
    /\ tasks[t].pc = "script"
    /\ LET message == Message("Runnning script", tasks[t].deployment.script)
           ev == Publishing(t, "progress", message)
       IN  Deliver(t, "progress", message,
                   {RunScript(ev, o) : o \in {"ok", "error", "exception"}})

\* An error whose message names what failed.
RaiseNaming(tk, error, arg) == [Raise(tk, error) EXCEPT !.error_arg = arg]

\* Mutant: after a restart that failed the next service is restarted.
RestartService_goes_on(tk, o) ==
    LET called == Log(tk, Called("restart", tk.deployment.services[tk.idx]))
        next == NextService(called, tk.idx + 1)
    IN  CASE o = "exception" -> Die(called)
          [] o = "error" ->
                [next EXCEPT !.error = "Could not restart service",
                             !.error_arg = tk.deployment.services[tk.idx]]
          [] OTHER -> next

\* subprocess.check_call of systemctl restart: CalledProcessError becomes
\* the RuntimeError 'Could not restart service {service}'.
RestartService(tk, o) ==
    LET service == tk.deployment.services[tk.idx]
        called == Log(tk, Called("restart", service))
    IN  IF o = "error"
        THEN RaiseNaming(called, "Could not restart service", service)
        ELSE Outcome(called, o, "", NextService(called, tk.idx + 1))

DeliverService(t) ==
    /\ tasks[t].pc = "service"
    /\ LET message == Message("Restarting service",
                              tasks[t].deployment.services[tasks[t].idx])
           ev == Publishing(t, "progress", message)
       IN  Deliver(t, "progress", message,
                   {RestartService(ev, o) : o \in {"ok", "error", "exception"}})

\* Deploy_Task._update_bigboat up to its first publish: the API key is
\* required, the compose files are read, and their diff decides.
UpdateBigboat(t) ==
    /\ tasks[t].pc = "bigboat"
    /\ \E o \in {"unchanged", "changed", "exception"} :
          tasks' = [tasks EXCEPT ![t] =
              IF @.deployment.bigboat_key = ""
              THEN Raise(@, "BigBoat API key required to update BigBoat")
              ELSE LET called == Log(@, Called("get_contents", ""))
                   IN  CASE o = "unchanged" -> At(called, "bigboat_skip", 0)
                         [] o = "changed" -> At(called, "bigboat_compose", 0)
                         [] o = "exception" -> Die(called)]
    /\ UNCHANGED <<store, deploy_progress, handlers, stopper, work_files>>
    /\ Quiet

DeliverBigboatSkip(t) ==
    /\ tasks[t].pc = "bigboat_skip"
    /\ LET message == Message("BigBoat compose files were unchanged, skipping.", "")
           ev == Publishing(t, "progress", message)
       IN  Deliver(t, "progress", message,
                   {Finish(ev)})

\* get_app, update_app and update_compose of the BigBoat client
UpdateCompose(tk, o) ==
    LET called == Log(tk, Called("update_compose", ""))
    IN  Outcome(called, o, "Cannot update compose file",
                At(called, "bigboat_instance", 0))

DeliverBigboatCompose(t) ==
    /\ tasks[t].pc = "bigboat_compose"
    /\ LET message == Message("Updating BigBoat compose files", "")
           ev == Publishing(t, "progress", message)
       IN  Deliver(t, "progress", message,
                   {UpdateCompose(ev, o) : o \in {"ok", "error", "exception"}})

\* update_instance of the BigBoat client
UpdateInstance(tk, o) ==
    LET called == Log(tk, Called("update_instance", ""))
    IN  Outcome(called, o, "", Finish(called))

DeliverBigboatInstance(t) ==
    /\ tasks[t].pc = "bigboat_instance"
    /\ LET message == Message("Updating BigBoat instances", "")
           ev == Publishing(t, "progress", message)
       IN  Deliver(t, "progress", message,
                   {UpdateInstance(ev, o) : o \in {"ok", "exception"}})

\* Mutant: an error is raised after the success event.
DeliverSuccess_then_error(t) ==
    /\ tasks[t].pc = "success"
    /\ LET message == Message("Finished deployment", "")
           ev == Publishing(t, "success", message)
       IN  Deliver(t, "success", message,
                   {Raise(ev, "Could not finish")})

\* The last statement of _deploy; run() returns after it.
DeliverSuccess(t) ==
    /\ tasks[t].pc = "success"
    /\ LET message == Message("Finished deployment", "")
           ev == Publishing(t, "success", message)
       IN  Deliver(t, "success", message,
                   {Return(ev)})

\* The except clause of run(): the message of the error is published.
DeliverError(t) ==
    /\ tasks[t].pc = "error"
    /\ LET message == Message(tasks[t].error, tasks[t].error_arg)
           ev == Publishing(t, "error", message)
       IN  Deliver(t, "error", message,
                   {Return(ev)})

\* The steps of a task whose deployment configures no optional step.
PlainStep(t) ==
    \/ PublishCheck(t)
    \/ DeliverRepository(t)
    \/ DeliverSecretFiles(t)
    \/ DeliverSuccess(t)
    \/ DeliverError(t)

TaskStep(t) ==
    \/ PublishCheck(t)
    \/ DeliverJenkins(t)
    \/ DeliverRepository(t)
    \/ DeliverArtifacts(t)
    \/ DeliverArtifact(t)
    \/ DeliverSecretFiles(t)
    \/ DeliverScript(t)
    \/ DeliverService(t)
    \/ UpdateBigboat(t)
    \/ DeliverBigboatSkip(t)
    \/ DeliverBigboatCompose(t)
    \/ DeliverBigboatInstance(t)
    \/ DeliverSuccess(t)
    \/ DeliverError(t)

-----------------------------------------------------------------------------
(* Deployer.deploy (deployment/deployer.py) *)

Idle == [pc |-> "idle", name |-> "", deployment |-> NoDeployment,
         thread |-> NoThread]

Response(status, body) ==
    [status |-> status, body |-> body, state |-> "", message |-> <<>>, key |-> 0]

\* Mutant: the page shows the record as it was when the thread was made.
ProgressPage_starting(record) ==
    [status |-> 200, body |-> "progress", state |-> "starting",
     message |-> Message("Thread is starting", ""), key |-> 0]

\* The page of a GET of deploy: state and message of the progress record.
ProgressPage(record) ==
    [status |-> 200, body |-> "progress", state |-> record.state,
     message |-> record.message, key |-> 0]

\* The slots that hold no thread object yet.
FreeThreads == {t \in Threads : tasks[t].pc = "none"}

\* A request arrives at a handler that is free.
Arrives(h) ==
    /\ handlers[h].pc = "idle"
    /\ pending.requests > 0
    /\ pending' = [pending EXCEPT !.requests = @ - 1]

\* Mutant: the progress record is shown before the deployment is looked up.
DeployGet_record_first(h, name) ==
    /\ Arrives(h)
    /\ deployments' = Loaded(Deployments)
    /\ response' =
          IF name \in DOMAIN deploy_progress
          THEN ProgressPage(deploy_progress[name])
          ELSE IF ~Contains(Deployments, name)
               THEN Response(404, "does not exist")
               ELSE Response(302, "list")
    /\ fs_ops' = <<>>
    /\ request' = Request("GET", "deploy", name)
    /\ handlers' = handlers
    /\ UNCHANGED <<disk, key_files, key_counter, deploy_progress, tasks, stopper,
                   work_files>>

\* GET of deploy: the progress record of the name, or a redirect to the list.
DeployGet(h, name) ==
    /\ Arrives(h)
    /\ deployments' = Loaded(Deployments)
    /\ response' =
          IF ~Contains(Deployments, name) THEN Response(404, "does not exist")
          ELSE IF name \in DOMAIN deploy_progress
               THEN ProgressPage(deploy_progress[name])
               ELSE Response(302, "list")
    /\ fs_ops' = <<>>
    /\ request' = Request("GET", "deploy", name)
    /\ handlers' = handlers
    /\ UNCHANGED <<disk, key_files, key_counter, deploy_progress, tasks, stopper,
                   work_files>>

\* POST of deploy up to the admission test: a name whose record holds a
\* thread is refused, any other goes on to make a thread.
DeployPostCheck(h, name) ==
    /\ Arrives(h)
    /\ deployments' = Loaded(Deployments)
    /\ IF ~Contains(Deployments, name)
       THEN /\ response' = Response(404, "does not exist")
            /\ UNCHANGED handlers
       ELSE IF ProgressThread(deploy_progress, name) # NoThread
            THEN /\ response' = Response(200, "already underway")
                 /\ UNCHANGED handlers
            ELSE /\ response' = NoResponse
                 /\ handlers' = [handlers EXCEPT ![h] =
                        [Idle EXCEPT !.pc = "admitted", !.name = name,
                                     !.deployment = Get(Deployments, name)]]
    /\ fs_ops' = <<>>
    /\ request' = Request("POST", "deploy", name)
    /\ UNCHANGED <<disk, key_files, key_counter, deploy_progress, tasks, stopper,
                   work_files>>

\* POST of deploy: the thread object is made and stored in the record of the
\* name, in the 'starting' state.
DeployPostRegister(h) ==
    /\ handlers[h].pc = "admitted"
    /\ LET t == CHOOSE t \in FreeThreads : \A u \in FreeThreads : t <= u
       IN  /\ tasks' = [tasks EXCEPT ![t] = NewTask(handlers[h].deployment)]
           /\ deploy_progress' =
                 SetItem(deploy_progress, handlers[h].name,
                         [state |-> "starting",
                          message |-> Message("Thread is starting", ""),
                          thread |-> t])
           /\ handlers' = [handlers EXCEPT ![h] =
                              [@ EXCEPT !.pc = "registered", !.thread = t]]
    /\ UNCHANGED <<store, stopper, work_files>>
    /\ Quiet

\* POST of deploy: thread.start() and the page that says so.
DeployPostStart(h) ==
    /\ handlers[h].pc = "registered"
    /\ tasks' = [tasks EXCEPT ![handlers[h].thread] = EnterDeploy(@)]
    /\ handlers' = [handlers EXCEPT ![h] = Idle]
    /\ response' = Response(200, "has started")
    /\ fs_ops' = <<>>
    /\ request' = Request("POST", "deploy", handlers[h].name)
    /\ UNCHANGED <<store, deploy_progress, stopper, work_files>>

-----------------------------------------------------------------------------
(* Deployer._stop_threads, the listener of 'stop' and 'graceful' *)

NotStopping == [pc |-> "idle", threads |-> {}, thread |-> NoThread,
                stopped |-> {}]

\* What Thread.join and Thread.is_alive do once the thread has ended.
\* Deploy_Task.__init__ assigns self._stop = False over the method
\* threading.Thread._stop, which CPython 3.4 to 3.12 calls at that point:
\* there the call raises TypeError, elsewhere it returns.
EndedThreadOutcomes == {"returns", "TypeError"}

\* list(self._deploy_progress.values()): the threads of the records.
StopBegin ==
    /\ stopper.pc = "idle"
    /\ pending.stops > 0
    /\ pending' = [pending EXCEPT !.stops = @ - 1]
    /\ stopper' = [NotStopping EXCEPT
                      !.pc = "loop",
                      !.threads = {deploy_progress[n].thread :
                                      n \in DOMAIN deploy_progress} \ {NoThread}]
    /\ UNCHANGED <<deployments, disk, key_files, key_counter, deploy_progress,
                   tasks, handlers, work_files>>
    /\ Quiet

\* thread.stop() and thread.is_alive() for one thread of the list.
StopThread(t) ==
    /\ stopper.pc = "loop"
    /\ t \in stopper.threads
    /\ tasks' = [tasks EXCEPT ![t] = [@ EXCEPT !.stop = TRUE]]
    /\ \E o \in EndedThreadOutcomes :
          stopper' =
              IF IsAlive(tasks[t])
              THEN [stopper EXCEPT !.pc = "join", !.thread = t,
                                   !.threads = @ \ {t}, !.stopped = @ \cup {t}]
              ELSE IF IsFinished(tasks[t]) /\ o = "TypeError"
                   THEN NotStopping
                   ELSE [stopper EXCEPT !.threads = @ \ {t},
                                        !.stopped = @ \cup {t}]
    /\ UNCHANGED <<store, deploy_progress, handlers, work_files>>
    /\ Quiet

\* thread.join() returns, or raises, when the thread has ended.
StopJoin ==
    /\ stopper.pc = "join"
    /\ ~IsAlive(tasks[stopper.thread])
    /\ \E o \in EndedThreadOutcomes :
          stopper' = IF o = "TypeError"
                     THEN NotStopping
                     ELSE [stopper EXCEPT !.pc = "loop", !.thread = NoThread]
    /\ UNCHANGED <<store, deploy_progress, tasks, handlers, work_files>>
    /\ Quiet

\* self._deploy_progress = {} after the loop; the listener returns.
StopClear ==
    /\ stopper.pc = "loop"
    /\ stopper.threads = {}
    /\ deploy_progress' = EmptyProgress
    /\ stopper' = NotStopping
    /\ UNCHANGED <<store, tasks, handlers, work_files>>
    /\ Quiet

-----------------------------------------------------------------------------
(* Deployer.create (deployment/deployer.py) *)

\* The names a form can carry: create takes name='' when the form has none.
FormNames == Names \cup {""}

\* The fields of a create form besides the name.
Forms ==
    [jenkins_job : {"build-test"}, script : {"", "install"},
     services : {"", "httpd"}, git_path : {"/srv/test"},
     deploy_key : {NotGiven}, secret_files_names : {NotGiven},
     secret_files : {<<<<"env", "PASSWORD=1">>>>}]

FileOp(op, path) == [op |-> op, path |-> path]

\* Mutant: an old key file is left in the way of the new key.
generate_deploy_key_ops_keeps_old(files, name) ==
    <<FileOp("generate", KeyFile(name))>>

\* Deployer._generate_deploy_key: an old key file at the path is removed,
\* then Key.generate writes a new key there.
generate_deploy_key_ops(files, name) ==
    (IF KeyFile(name) \in DOMAIN files
     THEN <<FileOp("remove", KeyFile(name))>> ELSE <<>>)
        \o <<FileOp("generate", KeyFile(name))>>

generate_deploy_key(files, name) ==
    [p \in DOMAIN files \cup {KeyFile(name)} |->
        IF p = KeyFile(name) THEN key_counter + 1 ELSE files[p]]

\* services.split(',') if services != '' else []
SplitServices(services) == IF services = "" THEN <<>> ELSE <<services>>

\* Deployer._upload_files: the uploaded parts replace the contents of the
\* names of current in order; parts beyond them go by their file names.
RECURSIVE upload_files(_, _, _, _)
upload_files(current, names, new_files, i) ==
    IF i > Len(new_files)
    THEN current
    ELSE upload_files(SetSecret(current,
                                IF i <= Len(names)
                                THEN names[i] ELSE new_files[i][1],
                                new_files[i][2]),
                      names, new_files, i + 1)

SecretNames(secret_files) == [i \in DOMAIN secret_files |-> secret_files[i][1]]

\* The deployment Deployer._create_deployment builds from the form.
FormDeployment(name, deploy_key, form, secret_files) ==
    Deployment(name, deploy_key, form.jenkins_job, FALSE, form.script,
               SplitServices(form.services), "", "",
               upload_files(secret_files, SecretNames(secret_files),
                            form.secret_files, 1),
               form.git_path)

\* Mutant: the key is generated and the set written without the test of the
\* name; Deployments.add ignores the duplicate.
CreatePost_unchecked(h, name, form) ==
    /\ Arrives(h)
    /\ key_counter' = key_counter + 1
    /\ key_files' = generate_deploy_key(key_files, name)
    /\ deployments' =
          Loaded(Add(Deployments, FormDeployment(name, KeyFile(name), form, <<>>)))
    /\ disk' = Write(deployments'.set)
    /\ fs_ops' = generate_deploy_key_ops(key_files, name)
                    \o <<FileOp("write", <<"deployment.json", "">>)>>
    /\ response' = [Response(200, "created") EXCEPT
                       !.key = key_files'[KeyFile(name)]]
    /\ request' = [Request("POST", "create", name) EXCEPT !.form = form]
    /\ UNCHANGED <<deploy_progress, tasks, handlers, stopper, work_files>>

\* POST of create: Deployer._create_deployment with a generated key and the
\* uploaded files, then the page that shows the public key.
CreatePost(h, name, form) ==
    /\ Arrives(h)
    /\ IF Contains(Deployments, name)
       THEN /\ deployments' = Loaded(Deployments)
            /\ response' = Response(500, "already exists")
            /\ fs_ops' = <<>>
            /\ UNCHANGED <<disk, key_files, key_counter>>
       ELSE /\ key_counter' = key_counter + 1
            /\ key_files' = generate_deploy_key(key_files, name)
            /\ deployments' =
                  Loaded(Add(Deployments,
                             FormDeployment(name, KeyFile(name), form, <<>>)))
            /\ disk' = Write(deployments'.set)
            /\ fs_ops' = generate_deploy_key_ops(key_files, name)
                            \o <<FileOp("write", <<"deployment.json", "">>)>>
            /\ response' = [Response(200, "created") EXCEPT
                               !.key = key_files'[KeyFile(name)]]
    /\ request' = [Request("POST", "create", name) EXCEPT !.form = form]
    /\ UNCHANGED <<deploy_progress, tasks, handlers, stopper, work_files>>

-----------------------------------------------------------------------------
(* Deployer.edit (deployment/deployer.py) *)

Max(a, b) == IF a >= b THEN a ELSE b

\* The loop of Deployer._check_old_secrets over zip_longest(secret_names,
\* old_names), from position i on: an empty new name and a position without
\* a new name are skipped, a position without an old name starts empty, any
\* other takes the content of the old name at the position.
RECURSIVE zip_old_secrets(_, _, _, _)
zip_old_secrets(secret_names, old_secrets, i, new_secrets) ==
    IF i > Max(Len(secret_names), Len(old_secrets))
    THEN new_secrets
    ELSE zip_old_secrets(secret_names, old_secrets, i + 1,
            IF i > Len(secret_names) \/ secret_names[i] = ""
            THEN new_secrets
            ELSE SetSecret(new_secrets, secret_names[i],
                           IF i > Len(old_secrets)
                           THEN "" ELSE old_secrets[i][2]))

\* Mutant: the old mapping is not consulted, every name starts empty.
check_old_secrets_empty(secret_names, old_deployment) ==
    zip_old_secrets(secret_names, <<>>, 1, <<>>)

\* Deployer._check_old_secrets: the mapping it returns.
check_old_secrets(secret_names, old_deployment) ==
    zip_old_secrets(secret_names, old_deployment.secret_files, 1, <<>>)

\* Deployer._check_old_secrets: the files of the old names it removes from
\* the working copy when the names are not the old names.
old_secret_paths(secret_names, old_deployment) ==
    LET old_names == SecretNames(old_deployment.secret_files)
    IN  IF old_names # secret_names
        THEN SelectSeq([i \in DOMAIN old_names |->
                           SecretPath(old_deployment.git_path, old_names[i])],
                       LAMBDA path : path \in work_files)
        ELSE <<>>

\* kwargs.pop("secret_files_names", '').split(' ')
SplitSecretNames(form) ==
    IF form.secret_files_names = NotGiven
    THEN <<"">> ELSE form.secret_files_names[1]

RemoveOps(paths) == [i \in DOMAIN paths |-> FileOp("remove", paths[i])]

Without(files, paths) == [p \in DOMAIN files \ paths |-> files[p]]

\* if kwargs.pop("deploy_key"): the checkbox was sent with a value.
KeepDeployKey(form) == form.deploy_key[1] # ""

\* Mutant: the deployment always gets the key path of its name.
DeployKeyOf_name(keep, old_deployment, name) == KeyFile(name)

\* The deploy key of the edited deployment: the path the old one had, or the
\* path Deployer._generate_deploy_key makes for the name.
DeployKeyOf(keep, old_deployment, name) ==
    IF keep THEN old_deployment.deploy_key ELSE KeyFile(name)

\* edit without a name: a redirect to the list.
EditRedirect(h, method, old_name, form) ==
    /\ Arrives(h)
    /\ request' = [method |-> method, page |-> "edit", name |-> NotGiven,
                   old_name |-> old_name, form |-> form]
    /\ response' = Response(302, "list")
    /\ fs_ops' = <<>>
    /\ UNCHANGED <<deployments, disk, key_files, key_counter, deploy_progress,
                   tasks, handlers, stopper, work_files>>

\* Mutant: a GET of edit for an unknown name shows an empty form.
EditGet_blank(h, name, old_name) ==
    /\ Arrives(h)
    /\ request' = [Request("GET", "edit", name) EXCEPT !.old_name = old_name]
    /\ deployments' = Loaded(Deployments)
    /\ response' = Response(200, "edit")
    /\ fs_ops' = <<>>
    /\ UNCHANGED <<disk, key_files, key_counter, deploy_progress, tasks,
                   handlers, stopper, work_files>>

\* GET of edit: the form of the deployment of the name.
EditGet(h, name, old_name) ==
    /\ Arrives(h)
    /\ request' = [Request("GET", "edit", name) EXCEPT !.old_name = old_name]
    /\ deployments' = Loaded(Deployments)
    /\ response' = IF Contains(Deployments, name)
                   THEN Response(200, "edit")
                   ELSE Response(404, "does not exist")
    /\ fs_ops' = <<>>
    /\ UNCHANGED <<disk, key_files, key_counter, deploy_progress, tasks,
                   handlers, stopper, work_files>>

\* POST of edit, the statements of Deployer.edit in order: the old deployment
\* is found and removed from the set; the checkbox keeps its key or has the
\* key file removed; the secret files are reconciled; _create_deployment
\* adds the deployment under the name and writes the set; the public key is
\* read for the page.  An exception ends the request where it is raised, with
\* what was done until then.
EditPost(h, name, old_name, form) ==
    /\ Arrives(h)
    /\ request' = [Request("POST", "edit", name) EXCEPT
                      !.old_name = old_name, !.form = form]
    /\ UNCHANGED <<deploy_progress, tasks, handlers, stopper>>
    /\ IF old_name = NotGiven \/ ~Contains(Deployments, old_name[1])
       THEN \* self._find_deployment(old_name)
            /\ deployments' = Loaded(Deployments)
            /\ response' = Response(404, "does not exist")
            /\ fs_ops' = <<>>
            /\ UNCHANGED <<disk, key_files, key_counter, work_files>>
       ELSE
       LET old_deployment == Get(Deployments, old_name[1])
           removed == Discard(Deployments, old_name[1])
       IN  IF form.deploy_key = NotGiven
           THEN \* kwargs.pop("deploy_key") raises KeyError
                /\ deployments' = Loaded(removed)
                /\ response' = Response(500, "KeyError")
                /\ fs_ops' = <<>>
                /\ UNCHANGED <<disk, key_files, key_counter, work_files>>
           ELSE
           LET keep == KeepDeployKey(form)
               old_key == IF ~keep /\ old_deployment.deploy_key
                                          \in DOMAIN key_files
                          THEN <<old_deployment.deploy_key>> ELSE <<>>
               files == Without(key_files, Range(old_key))
               secret_names == SplitSecretNames(form)
               secret_paths == old_secret_paths(secret_names, old_deployment)
               secret_files == check_old_secrets(secret_names, old_deployment)
               removals == RemoveOps(old_key \o secret_paths)
           IN  /\ work_files' = work_files \ Range(secret_paths)
               /\ IF Contains(removed, name)
                  THEN \* _create_deployment raises ValueError
                       /\ deployments' = Loaded(removed)
                       /\ key_files' = files
                       /\ response' = Response(500, "already exists")
                       /\ fs_ops' = removals
                       /\ UNCHANGED <<disk, key_counter>>
                  ELSE
                  LET deploy_key == DeployKeyOf(keep, old_deployment, name)
                      deployment == FormDeployment(name, deploy_key, form,
                                                   secret_files)
                  IN  /\ key_counter' = IF keep THEN key_counter
                                        ELSE key_counter + 1
                      /\ key_files' = IF keep THEN files
                                      ELSE generate_deploy_key(files, name)
                      /\ deployments' = Loaded(Add(removed, deployment))
                      /\ disk' = Write(deployments'.set)
                      /\ fs_ops' =
                            removals
                               \o (IF keep THEN <<>>
                                   ELSE generate_deploy_key_ops(files, name))
                               \o <<FileOp("write", <<"deployment.json", "">>)>>
                      /\ response' =
                            IF deploy_key \in DOMAIN key_files'
                            THEN [Response(200, "updated") EXCEPT
                                     !.state = IF keep THEN "original"
                                               ELSE "new",
                                     !.key = key_files'[deploy_key]]
                            ELSE Response(500, "no public key")

-----------------------------------------------------------------------------
(* Specifications *)

\* The working copy of a deployment.
GitPath(name) == IF name = "test" THEN "/srv/test" ELSE "/srv/monetdb-import"

Install(name) ==
    Deployment(name, KeyFile(name), "", FALSE, "install", <<>>, "", "", <<>>,
               GitPath(name))

Plain(name) ==
    Deployment(name, KeyFile(name), "", FALSE, "", <<>>, "", "", <<>>,
               GitPath(name))

\* Every configuration of the pipeline of a task.
Pipelines(name) ==
    {Deployment(name, KeyFile(name), job, artifacts, script, services, url[1],
                url[2], secrets, GitPath(name)) :
        job \in {"", "build-test"}, artifacts \in BOOLEAN,
        script \in {"", "install"},
        services \in {<<>>, <<"httpd">>, <<"", "httpd", "db">>},
        url \in {<<"", "">>, <<"http://bigboat.test/", "">>,
                 <<"http://bigboat.test/", "abcdef">>},
        secrets \in {<<>>, <<<<"env", "PASSWORD=1">>>>}}

NoFile == [exists |-> FALSE, configs |-> <<>>]

\* The key files of the deployments of a file, and some stale ones.
KeyFilesOf(file, stale) ==
    [p \in {file.configs[i].deploy_key : i \in DOMAIN file.configs} \cup stale
        |-> 0]

\* The state after Deployer.__init__, over some state of the deploy path.
InitWith(file, files, secrets, requests, stops) ==
    /\ pending = [requests |-> requests, stops |-> stops]
    /\ deployments = NotLoaded
    /\ disk = file
    /\ key_files = files
    /\ key_counter = 0
    /\ deploy_progress = EmptyProgress
    /\ tasks = [t \in Threads |-> NoTask]
    /\ handlers = [h \in Handlers |-> Idle]
    /\ stopper = NotStopping
    /\ work_files = secrets
    /\ request = NoRequest
    /\ response = NoResponse
    /\ fs_ops = <<>>

InitOf(configs, requests, stops) ==
    InitWith(Write(configs), KeyFilesOf(Write(configs), {}), {}, requests,
             stops)

\* The web application with one deployment: concurrent requests for it and
\* for a name that does not exist, its tasks and the stop/graceful listener.
Init == InitOf(<<Plain("monetdb-import")>>, MaxRequests, MaxStops)

Next ==
    \/ \E h \in Handlers, name \in Names : DeployGet(h, name)
    \/ \E h \in Handlers, name \in Names : DeployPostCheck(h, name)
    \/ \E h \in Handlers : DeployPostRegister(h)
    \/ \E h \in Handlers : DeployPostStart(h)
    \/ \E t \in Threads : PlainStep(t)
    \/ StopBegin
    \/ \E t \in Threads : StopThread(t)
    \/ StopJoin
    \/ StopClear

Spec == Init /\ [][Next]_vars

\* The web application with two deployments: concurrent requests and tasks.
InitNames ==
    InitOf(<<Plain("monetdb-import"), Install("test")>>, MaxRequests, 0)

NextNames ==
    \/ \E h \in Handlers, name \in Names : DeployGet(h, name)
    \/ \E h \in Handlers, name \in Names : DeployPostCheck(h, name)
    \/ \E h \in Handlers : DeployPostRegister(h)
    \/ \E h \in Handlers : DeployPostStart(h)
    \/ \E t \in Threads : PlainStep(t)
    \/ \E t \in Threads : DeliverScript(t)

SpecNames == InitNames /\ [][NextNames]_vars

\* One deployment in every configuration of the pipeline, deployed by one
\* request, with the stop/graceful listener.
InitTask == \E d \in Pipelines("monetdb-import") : InitOf(<<d>>, 1, MaxStops)

NextTask ==
    \/ DeployPostCheck("h1", "monetdb-import")
    \/ DeployPostRegister("h1")
    \/ DeployPostStart("h1")
    \/ \E t \in Threads : TaskStep(t)
    \/ StopBegin
    \/ \E t \in Threads : StopThread(t)
    \/ StopJoin
    \/ StopClear

SpecTask == InitTask /\ [][NextTask]_vars

\* The set of deployments under create requests, from a file that is missing
\* or holds one deployment, with or without a stale key file.
InitStore ==
    \E file \in {NoFile, Write(<<>>), Write(<<Install("monetdb-import")>>)},
       stale \in SUBSET {KeyFile("test")} :
        InitWith(file, KeyFilesOf(file, stale), {}, MaxRequests, 0)

NextStore ==
    \E h \in Handlers, name \in FormNames, form \in Forms :
        CreatePost(h, name, form)

SpecStore == InitStore /\ [][NextStore]_vars

\* A deployment with a secret file.
Secret(name) ==
    Deployment(name, KeyFile(name), "", FALSE, "", <<>>, "", "",
               <<<<"env", "PASSWORD=1">>>>, GitPath(name))

\* The forms of edit requests: the checkbox left out, empty or set, and the
\* names of the secret files left out, as they were, or changed.
EditForms ==
    [jenkins_job : {"build-test"}, script : {""}, services : {""},
     git_path : {"/srv/test"},
     deploy_key : {NotGiven, Given(""), Given("1")},
     secret_files_names : {NotGiven, Given(<<"env">>), Given(<<"key.pem">>)},
     secret_files : {<<>>}]

OldNames == {NotGiven} \cup {Given(name) : name \in Names}

\* The set of deployments under create and edit requests, from a file with
\* one or two deployments, with or without the secret file of the first in
\* its working copy.
InitEdit ==
    \E file \in {Write(<<Secret("monetdb-import")>>),
                  Write(<<Secret("monetdb-import"), Install("test")>>)},
       secrets \in SUBSET {SecretPath(GitPath("monetdb-import"), "env")} :
        InitWith(file, KeyFilesOf(file, {}), secrets, MaxRequests, 0)

NextEdit ==
    \/ \E h \in Handlers, name \in FormNames :
          CreatePost(h, name, CHOOSE form \in Forms :
                                 form.script = "" /\ form.services = "")
    \/ \E h \in Handlers, method \in {"GET", "POST"}, old_name \in OldNames :
          EditRedirect(h, method, old_name, NoForm)
    \/ \E h \in Handlers, name \in FormNames, old_name \in OldNames :
          EditGet(h, name, old_name)
    \/ \E h \in Handlers, name \in FormNames, old_name \in OldNames,
          form \in EditForms : EditPost(h, name, old_name, form)

SpecEdit == InitEdit /\ [][NextEdit]_vars

\* A deployment with the secret files of a mapping.
WithSecrets(name, secret_files) ==
    Deployment(name, KeyFile(name), "", FALSE, "", <<>>, "", "", secret_files,
               GitPath(name))

\* Mappings of secret files of an old deployment.
OldSecrets ==
    {<<>>, <<<<"env", "PASSWORD=1">>>>,
     <<<<"env", "PASSWORD=1">>, <<"cert", "KEY=2">>>>,
     <<<<"cert", "KEY=2">>, <<"env", "PASSWORD=1">>>>}

\* The lists of names that secret_files_names splits into: one or two names
\* of old, new and empty ones, and two lists of three.
SecretNameLists ==
    UNION {[1..n -> {"", "env", "cert", "new"}] : n \in 1..2}
        \cup {<<"cert", "", "new">>, <<"env", "env", "cert">>}

\* Edit forms that keep the key, upload nothing and name the secret files.
SecretForms ==
    [jenkins_job : {"build-test"}, script : {""}, services : {""},
     git_path : {"/srv/monetdb-import"}, deploy_key : {Given("1")},
     secret_files_names : {Given(names) : names \in SecretNameLists},
     secret_files : {<<>>}]

\* One deployment with some mapping of secret files, edited under its name.
InitSecrets ==
    \E secret_files \in OldSecrets :
        InitOf(<<WithSecrets("monetdb-import", secret_files)>>, MaxRequests, 0)

NextSecrets ==
    \E h \in Handlers, form \in SecretForms :
        EditPost(h, "monetdb-import", Given("monetdb-import"), form)

SpecSecrets == InitSecrets /\ [][NextSecrets]_vars

\* A call of a method of the set that returned None.
Returned == Response(0, "None")

\* A call of Deployments.add with a value; the request records its name and
\* its script.
DeploymentsAdd(value) ==
    /\ pending.requests > 0
    /\ pending' = [pending EXCEPT !.requests = @ - 1]
    /\ request' = [Request("add", "Deployments", value.name) EXCEPT
                      !.form.script = value.script]
    /\ deployments' = Loaded(Add(Deployments, value))
    /\ response' = Returned
    /\ fs_ops' = <<>>
    /\ UNCHANGED <<disk, key_files, key_counter, deploy_progress, tasks,
                   handlers, stopper, work_files>>

\* A call of Deployments.discard with a name.
DeploymentsDiscard(name) ==
    /\ pending.requests > 0
    /\ pending' = [pending EXCEPT !.requests = @ - 1]
    /\ request' = Request("discard", "Deployments", name)
    /\ deployments' = Loaded(Discard(Deployments, name))
    /\ response' = Returned
    /\ fs_ops' = <<>>
    /\ UNCHANGED <<disk, key_files, key_counter, deploy_progress, tasks,
                   handlers, stopper, work_files>>

\* The values added to a set: two configurations for every name.
SetValues == {Plain(name) : name \in FormNames}
                \cup {Install(name) : name \in FormNames}

\* The sets Deployments.__init__ makes of lists of up to two values.
InitialSets ==
    {<<>>} \cup {Add(<<>>, v) : v \in SetValues}
           \cup {Add(Add(<<>>, v), w) : v, w \in SetValues}

\* A set read from a file, under calls of add and discard.
InitSet ==
    \E set \in InitialSets : InitOf(set, MaxRequests, 0)

NextSet ==
    \/ \E value \in SetValues : DeploymentsAdd(value)
    \/ \E name \in FormNames : DeploymentsDiscard(name)

SpecSet == InitSet /\ [][NextSet]_vars

\* A call of Deployments.write of the set, held as dicts, to the file, held
\* as its JSON text.
DeploymentsWrite ==
    /\ pending.requests > 0
    /\ pending' = [pending EXCEPT !.requests = @ - 1]
    /\ request' = [NoRequest EXCEPT !.method = "write", !.page = "Deployments"]
    /\ disk' = write(deployments.set)
    /\ response' = Returned
    /\ fs_ops' = <<FileOp("write", <<"deployment.json", "">>)>>
    /\ UNCHANGED <<deployments, key_files, key_counter, deploy_progress, tasks,
                   handlers, stopper, work_files>>

\* A call of Deployments.read with the fields of the application.
DeploymentsRead ==
    /\ pending.requests > 0
    /\ pending' = [pending EXCEPT !.requests = @ - 1]
    /\ request' = [NoRequest EXCEPT !.method = "read", !.page = "Deployments"]
    /\ deployments' = Loaded(read(disk, FIELDS))
    /\ response' = Returned
    /\ fs_ops' = <<>>
    /\ UNCHANGED <<disk, key_files, key_counter, deploy_progress, tasks,
                   handlers, stopper, work_files>>

\* Dicts of deployments in memory: two made by the application, with the
\* secret files in one order and the other, one with a name alone and one
\* that has empty values where the fields declare defaults.
TwoSecrets == <<<<"cert", "KEY=2">>, <<"env", "PASSWORD=1">>>>

SetDicts ==
    {DictOf(WithSecrets("monetdb-import", TwoSecrets)),
     DictOf(Install("monetdb-import")),
     Dict(<<<<"name", Str("test")>>>>),
     Dict(<<<<"name", Str("test")>>, <<"git_branch", Str("")>>,
            <<"jenkins_git", Bool(FALSE)>>, <<"jenkins_states", List(<<>>)>>,
            <<"script", Str("")>>>>)}

\* Objects of a file: without any key, with a name alone, with some keys in
\* another order than the fields, and one written by the application.
FileObjects ==
    {Dict(<<>>),
     Dict(<<<<"name", Str("test")>>>>),
     Dict(<<<<"jenkins_job", Str("build-test")>>, <<"name", Str("test")>>,
            <<"jenkins_git", Bool(FALSE)>>,
            <<"secret_files", Dict(<<<<"env", Str("PASSWORD=1")>>>>)>>>>),
     DictOf(Install("monetdb-import"))}

\* The lists of up to two distinct names or objects of a pool.
Lists(pool) == {<<>>} \cup {<<a>> : a \in pool} \cup (pool \X pool)

\* A set of up to two deployments in memory and a file that is missing or
\* holds up to two objects, under calls of write and read.
InitFile ==
    \E dicts \in Lists(SetDicts), objects \in Lists(FileObjects),
       exists \in BOOLEAN :
        /\ Len(values(AddAll(read_configs(dicts, <<>>, 1, <<>>), 1, <<>>), 1,
                       <<>>)) = Len(dicts)
        /\ exists \/ objects = <<>>
        /\ pending = [requests |-> MaxRequests, stops |-> 0]
        /\ deployments = Loaded(dicts)
        /\ disk = [exists |-> exists, text |-> json_dump(List(objects))]
        /\ key_files = KeyFilesOf(NoFile, {})
        /\ key_counter = 0
        /\ deploy_progress = EmptyProgress
        /\ tasks = [t \in Threads |-> NoTask]
        /\ handlers = [h \in Handlers |-> Idle]
        /\ stopper = NotStopping
        /\ work_files = {}
        /\ request = NoRequest
        /\ response = NoResponse
        /\ fs_ops = <<>>

NextFile == DeploymentsWrite \/ DeploymentsRead

SpecFile == InitFile /\ [][NextFile]_vars

-----------------------------------------------------------------------------
(* Deployment.check_jenkins (deployment/deployment.py) *)

\* job.get_last_branch_build(branch) of a branch without a build: None, None.
NoBranchBuild ==
    [found |-> FALSE, number |-> 0, building |-> FALSE, result |-> "",
     branches |-> <<>>, SHA1 |-> ""]

\* A build and its branch_build: build.number, build.building, build.result,
\* the names of branch_build['revision']['branch'] and its SHA1.
BranchBuild(number, building, result, branches, SHA1) ==
    [found |-> TRUE, number |-> number, building |-> building,
     result |-> result, branches |-> branches, SHA1 |-> SHA1]

\* f'origin/{branch_name}'
Origin(branch_name) ==
    IF branch_name = "master" THEN "origin/master" ELSE "origin/develop"

\* What check_jenkins comes to: the build it returns or the ValueError it
\* raises, the revisions it asked is_up_to_date about, the branches it asked
\* the job about, and the states and the result its message names.
Checked(build, error, revisions) ==
    [build |-> build, error |-> error, revisions |-> revisions,
     queried |-> <<>>, detail |-> <<>>]

\* ' or '.join(states)
RECURSIVE join_or(_, _)
join_or(states, i) ==
    IF i > Len(states) THEN <<>>
    ELSE <<states[i]>> \o (IF i < Len(states) THEN <<" or ">> ELSE <<>>)
            \o join_or(states, i + 1)

\* The branches the loop asks the job about: the second only when the first
\* has no build.
Queried(branch_name, job) ==
    IF job[branch_name].found THEN <<branch_name>>
    ELSE <<branch_name, Origin(branch_name)>>

\* A result of the loop with the branches that were asked about.
Asked(queried, build, error, revisions) ==
    [Checked(build, error, revisions) EXCEPT !.queried = queried]

\* Mutant: the revision is compared whatever jenkins_git is.
branch_build_compared(deployment, job, head) ==
    LET branch_name == deployment.git_branch
        asked == Queried(deployment.git_branch, job)
        builds == SelectSeq(<<branch_name, Origin(branch_name)>>,
                            LAMBDA branch : job[branch].found)
    IN  IF builds = <<>> THEN Asked(asked, NoBranchBuild, "", <<>>)
        ELSE LET build == job[builds[1]]
             IN  IF Cardinality(Range(build.branches)) > 1
                 THEN Asked(asked, NoBranchBuild,
                              "Latest build is caused by merge request", <<>>)
                 ELSE IF build.SHA1 # head
                 THEN Asked(asked, NoBranchBuild,
                              "Latest build is stale compared to Git repository",
                              <<build.SHA1>>)
                 ELSE Asked(asked, build, "", <<build.SHA1>>)

\* The loop of check_jenkins over the branch and origin/branch: the first
\* of them that has a last build decides.  The build is refused when it has
\* more than one branch name or, with jenkins_git, when is_up_to_date says
\* that its revision is not the head of the branch upstream.
branch_build(deployment, job, head) ==
    LET branch_name == deployment.git_branch
        asked == Queried(deployment.git_branch, job)
        builds == SelectSeq(<<branch_name, Origin(branch_name)>>,
                            LAMBDA branch : job[branch].found)
    IN  IF builds = <<>> THEN Asked(asked, NoBranchBuild, "", <<>>)
        ELSE LET build == job[builds[1]]
             IN  IF Cardinality(Range(build.branches)) > 1
                 THEN Asked(asked, NoBranchBuild,
                              "Latest build is caused by merge request", <<>>)
                 ELSE IF ~deployment.jenkins_git
                 THEN Asked(asked, build, "", <<>>)
                 ELSE IF build.SHA1 # head
                 THEN Asked(asked, NoBranchBuild,
                              "Latest build is stale compared to Git repository",
                              <<build.SHA1>>)
                 ELSE Asked(asked, build, "", <<build.SHA1>>)

\* Mutant: a build with any result is returned.
check_jenkins_any_result(deployment, job, head) ==
    LET latest == branch_build(deployment, job, head)
    IN  IF latest.error # "" THEN latest
        ELSE IF ~latest.build.found
        THEN Asked(latest.queried, NoBranchBuild,
                   "Branch build could not be found", latest.revisions)
        ELSE IF latest.build.building
        THEN Asked(latest.queried, NoBranchBuild, "Build is not complete",
                   latest.revisions)
        ELSE latest

\* Deployment.check_jenkins, for a job and the head of the branch upstream.
check_jenkins(deployment, job, head) ==
    LET latest == branch_build(deployment, job, head)
    IN  IF latest.error # "" THEN latest
        ELSE IF ~latest.build.found
        THEN Asked(latest.queried, NoBranchBuild,
                   "Branch build could not be found", latest.revisions)
        ELSE IF latest.build.building
        THEN Asked(latest.queried, NoBranchBuild, "Build is not complete",
                   latest.revisions)
        ELSE IF latest.build.result \notin Range(deployment.jenkins_states)
        THEN [Asked(latest.queried, NoBranchBuild, "Build result was not",
                    latest.revisions)
                 EXCEPT !.detail = <<join_or(deployment.jenkins_states, 1),
                                     latest.build.result>>]
        ELSE latest

\* A call of check_jenkins that is to be made: the deployment, the last
\* builds of the branches of the job, and the head of the branch upstream.
JenkinsCall(deployment, job, head) ==
    [method |-> "check_jenkins", page |-> "Deployment",
     deployment |-> deployment, job |-> job, head |-> head]

\* The call returns or raises.
CheckJenkinsCall ==
    /\ request.method = "check_jenkins"
    /\ pending.requests > 0
    /\ pending' = [pending EXCEPT !.requests = @ - 1]
    /\ response' = check_jenkins(request.deployment, request.job, request.head)
    /\ fs_ops' = <<>>
    /\ UNCHANGED <<request, deployments, disk, key_files, key_counter,
                   deploy_progress, tasks, handlers, stopper, work_files>>

\* Deployments with a Jenkins job: the branch, the check of the revision and
\* the results that are accepted.
JenkinsDeployments ==
    {[Plain("test") EXCEPT !.jenkins_job = "build-test",
                           !.git_branch = git_branch,
                           !.jenkins_git = jenkins_git,
                           !.jenkins_states = jenkins_states] :
        git_branch \in {"master", "develop"}, jenkins_git \in BOOLEAN,
        jenkins_states \in {<<>>, <<"SUCCESS">>, <<"SUCCESS", "UNSTABLE">>}}

\* The last builds of a branch of the job: none, or a build that is or is
\* not complete, with some result, one branch name, one name twice or two
\* names, and one revision or another.
BranchBuilds ==
    {NoBranchBuild}
        \cup {BranchBuild(2, building, result, branches, SHA1) :
                building \in BOOLEAN,
                result \in {"SUCCESS", "UNSTABLE", "FAILURE"},
                branches \in {<<"master">>, <<"master", "master">>,
                              <<"master", "my-feature-branch">>},
                SHA1 \in {"abcd1234", "1234abcd"}}

\* The job has builds of master and of origin/master at most.
Jobs ==
    {[branch \in {"master", "origin/master", "develop", "origin/develop"} |->
         IF branch = "master" THEN local
         ELSE IF branch = "origin/master" THEN origin ELSE NoBranchBuild] :
        local \in {NoBranchBuild,
                   BranchBuild(1, FALSE, "FAILURE", <<"master">>, "abcd1234"),
                   BranchBuild(1, FALSE, "SUCCESS", <<"master">>, "abcd1234")},
        origin \in BranchBuilds}

Heads == {"abcd1234", "ffff0000"}

InitJenkins ==
    \E deployment \in JenkinsDeployments, job \in Jobs, head \in Heads :
        /\ pending = [requests |-> MaxRequests, stops |-> 0]
        /\ deployments = NotLoaded
        /\ disk = Write(<<deployment>>)
        /\ key_files = KeyFilesOf(Write(<<deployment>>), {})
        /\ key_counter = 0
        /\ deploy_progress = EmptyProgress
        /\ tasks = [t \in Threads |-> NoTask]
        /\ handlers = [h \in Handlers |-> Idle]
        /\ stopper = NotStopping
        /\ work_files = {}
        /\ request = JenkinsCall(deployment, job, head)
        /\ response = NoResponse
        /\ fs_ops = <<>>

NextJenkins == CheckJenkinsCall

SpecJenkins == InitJenkins /\ [][NextJenkins]_vars

-----------------------------------------------------------------------------
(* validate_login: the session test at the head of every page (deployer.py) *)

\* cherrypy.session without and with the key 'authenticated'.
NoSession == <<>>
LoggedIn == [authenticated |-> "foo"]
Sessions == {NoSession, LoggedIn}

\* The value a request gives for a parameter.
Param(req, key) == IF key = "name" THEN req.name[1] ELSE req.old_name[1]

\* cherrypy.request.query_string: the parameters sent in the URL, in order,
\* as key=value joined by &.  Parameters of the body are no part of it.
RECURSIVE query_string(_, _)
query_string(req, i) ==
    IF i > Len(req.query) THEN <<>>
    ELSE <<req.query[i], "=", Param(req, req.query[i])>>
            \o (IF i < Len(req.query) THEN <<"&">> ELSE <<>>)
            \o query_string(req, i + 1)

\* urllib quote: = and & are percent-encoded, names are left as they are.
quote(string) ==
    [i \in DOMAIN string |->
        CASE string[i] = "=" -> "%3D"
          [] string[i] = "&" -> "%26"
          [] OTHER -> string[i]]

\* 'index?page={}'.format(page), with '&params={}' when there are any.
LoginIndex(page, params) ==
    <<"index?page=", page>>
        \o (IF params # <<>> /\ page # "" THEN <<"&params=">> \o params ELSE <<>>)

NoRedirect == <<>>

\* Mutant: every session passes.
validate_login_open(session, req) == NoRedirect

\* validate_login without credentials: a session without 'authenticated' is
\* redirected to the index with the page and the quoted query string.
validate_login(session, req) ==
    IF "authenticated" \notin DOMAIN session
    THEN LoginIndex(req.page, quote(query_string(req, 1)))
    ELSE NoRedirect

\* raise cherrypy.HTTPRedirect(redirect)
Redirected(location) ==
    [status |-> 302, body |-> "index", state |-> "", message |-> <<>>,
     key |-> 0, location |-> location]

\* A request as it is sent: the parameters named in query are in the URL,
\* the others that are given and the form are in the body.
Sent(method, page, name, old_name, form, query) ==
    [method |-> method, page |-> page, name |-> name, old_name |-> old_name,
     form |-> form, query |-> query]

\* The request is turned away at the head of the page.
LoginRedirect(session, h, req) ==
    /\ validate_login(session, req) # NoRedirect
    /\ Arrives(h)
    /\ request' = req
    /\ response' = Redirected(validate_login(session, req))
    /\ fs_ops' = <<>>
    /\ UNCHANGED <<deployments, disk, key_files, key_counter, deploy_progress,
                   tasks, handlers, stopper, work_files>>

\* Deployer.list: the deployments are read and shown.
ListGet(h) ==
    /\ Arrives(h)
    /\ deployments' = Loaded(Deployments)
    /\ request' = [NoRequest EXCEPT !.method = "GET", !.page = "list"]
    /\ response' = Response(200, "list")
    /\ fs_ops' = <<>>
    /\ UNCHANGED <<disk, key_files, key_counter, deploy_progress, tasks,
                   handlers, stopper, work_files>>

\* GET of create: the empty form.
CreateGet(h) ==
    /\ Arrives(h)
    /\ request' = [NoRequest EXCEPT !.method = "GET", !.page = "create"]
    /\ response' = Response(200, "create")
    /\ fs_ops' = <<>>
    /\ UNCHANGED <<deployments, disk, key_files, key_counter, deploy_progress,
                   tasks, handlers, stopper, work_files>>

\* The page of a request whose session passes validate_login.
Serve(session, h, req) ==
    /\ validate_login(session, req) = NoRedirect
    /\ \/ req.page = "list" /\ ListGet(h)
       \/ req.page = "create" /\ req.method = "GET" /\ CreateGet(h)
       \/ req.page = "create" /\ req.method = "POST"
             /\ CreatePost(h, req.name[1], req.form)
       \/ req.page = "edit" /\ req.method = "GET"
             /\ EditGet(h, req.name[1], req.old_name)
       \/ req.page = "edit" /\ req.method = "POST"
             /\ EditPost(h, req.name[1], req.old_name, req.form)
       \/ req.page = "deploy" /\ req.method = "GET"
             /\ DeployGet(h, req.name[1])
       \/ req.page = "deploy" /\ req.method = "POST"
             /\ DeployPostCheck(h, req.name[1])

\* A request to a page, from its arrival to the first thing it answers.
Visit(session, h, req) ==
    \/ LoginRedirect(session, h, req)
    \/ Serve(session, h, req)

\* The form of a create or edit request that keeps the deploy key.
KeepForm ==
    [NoForm EXCEPT !.jenkins_job = "build-test", !.git_path = "/srv/test",
                   !.deploy_key = Given("1"),
                   !.secret_files_names = Given(<<"key.pem">>)]

\* Requests to the four pages: the list; the form and the submission of
\* create, with the name in the body; the form of edit and its submission
\* with the names in the URL; the progress page, and the POST of deploy with
\* the name in the URL or, as the button of the list sends it, in the body.
Visits ==
    {Sent("GET", "list", NotGiven, NotGiven, NoForm, <<>>),
     Sent("GET", "create", NotGiven, NotGiven, NoForm, <<>>),
     Sent("POST", "create", Given("test"), NotGiven, KeepForm, <<>>),
     Sent("GET", "edit", Given("monetdb-import"), NotGiven, NoForm, <<"name">>),
     Sent("POST", "edit", Given("test"), Given("monetdb-import"), KeepForm,
          <<"name", "old_name">>),
     Sent("GET", "deploy", Given("monetdb-import"), NotGiven, NoForm, <<"name">>),
     Sent("POST", "deploy", Given("monetdb-import"), NotGiven, NoForm, <<"name">>),
     Sent("POST", "deploy", Given("monetdb-import"), NotGiven, NoForm, <<>>)}

\* The web application with one deployment under requests with and without
\* a session, and the tasks they start.
InitLogin ==
    \E secrets \in SUBSET {SecretPath(GitPath("monetdb-import"), "env")} :
        InitWith(Write(<<Secret("monetdb-import")>>),
                 KeyFilesOf(Write(<<Secret("monetdb-import")>>), {}), secrets,
                 MaxRequests, 0)

NextLogin ==
    \/ \E session \in Sessions, h \in Handlers, req \in Visits :
          LoginRedirect(session, h, req)
    \/ \E session \in Sessions, h \in Handlers, req \in Visits :
          Serve(session, h, req)
    \/ \E h \in Handlers : DeployPostRegister(h)
    \/ \E h \in Handlers : DeployPostStart(h)
    \/ \E t \in Threads : PlainStep(t)

SpecLogin == InitLogin /\ [][NextLogin]_vars

-----------------------------------------------------------------------------
(* Events of the 'deploy' channel that are delivered again *)

\* The bus delivers the terminal event of a name once more: the listener
\* Deployer._set_deploy_progress runs with the state and the message that
\* the record of the name holds from the first delivery.
Redeliver(name) ==
    /\ name \in DOMAIN deploy_progress
    /\ deploy_progress[name].state \in {"success", "error"}
    /\ deploy_progress' =
          set_deploy_progress(deploy_progress, name,
                              deploy_progress[name].state,
                              deploy_progress[name].message)
    /\ request' = [NoRequest EXCEPT !.method = "publish", !.page = "deploy",
                                    !.name = Given(name)]
    /\ response' = NoResponse
    /\ fs_ops' = <<>>
    /\ UNCHANGED <<store, tasks, handlers, stopper, work_files>>

\* Two deployments under concurrent requests and tasks, with terminal
\* events that are delivered again.
NextEvents ==
    \/ \E h \in Handlers, name \in Names : DeployGet(h, name)
    \/ \E h \in Handlers, name \in Names : DeployPostCheck(h, name)
    \/ \E h \in Handlers : DeployPostRegister(h)
    \/ \E h \in Handlers : DeployPostStart(h)
    \/ \E t \in Threads : PlainStep(t)
    \/ \E t \in Threads : DeliverScript(t)
    \/ \E name \in Names : Redeliver(name)

SpecEvents == InitNames /\ [][NextEvents]_vars

-----------------------------------------------------------------------------
(* Deploy requests for a deployment that has left the set *)

\* The record that the task of a name left behind when it ended.
Ended(state, text) ==
    [state |-> state, message |-> Message(text, ""), thread |-> NoThread]

\* The web application after monetdb-import was deployed, or not, and then
\* renamed to test by an edit: the progress record of the old name, if any,
\* is still in the map.
InitGone ==
    \E progress \in {EmptyProgress,
                      SetItem(EmptyProgress, "monetdb-import",
                              Ended("success", "Finished deployment")),
                      SetItem(EmptyProgress, "monetdb-import",
                              Ended("error", "Could not update Git repository"))} :
        /\ pending = [requests |-> MaxRequests, stops |-> 0]
        /\ deployments = NotLoaded
        /\ disk = Write(<<Plain("test")>>)
        /\ key_files = KeyFilesOf(Write(<<Plain("test")>>), {})
        /\ key_counter = 0
        /\ deploy_progress = progress
        /\ tasks = [t \in Threads |-> NoTask]
        /\ handlers = [h \in Handlers |-> Idle]
        /\ stopper = NotStopping
        /\ work_files = {}
        /\ request = NoRequest
        /\ response = NoResponse
        /\ fs_ops = <<>>

NextGone ==
    \/ \E h \in Handlers, name \in {"monetdb-import", "test"} :
          DeployGet(h, name)
    \/ \E h \in Handlers, name \in {"monetdb-import", "test"} :
          DeployPostCheck(h, name)
    \/ \E h \in Handlers : DeployPostRegister(h)
    \/ \E h \in Handlers : DeployPostStart(h)
    \/ \E t \in Threads : PlainStep(t)

SpecGone == InitGone /\ [][NextGone]_vars

-----------------------------------------------------------------------------
(* POST of edit, step by step, beside the handlers that look up a name *)

\* The handler of a POST of edit between the removal of the old deployment
\* and the call of _create_deployment.
Editing(name, old_deployment, form) ==
    [pc |-> "edit", name |-> name, deployment |-> old_deployment,
     thread |-> NoThread, form |-> form]

\* POST of edit up to self.deployments.remove(old_deployment).
EditBegin(h, name, old_name, form) ==
    /\ Arrives(h)
    /\ request' = [Request("POST", "edit", name) EXCEPT
                      !.old_name = old_name, !.form = form]
    /\ fs_ops' = <<>>
    /\ UNCHANGED <<disk, key_files, key_counter, work_files, deploy_progress,
                   tasks, stopper>>
    /\ IF old_name = NotGiven \/ ~Contains(Deployments, old_name[1])
       THEN /\ deployments' = Loaded(Deployments)
            /\ response' = Response(404, "does not exist")
            /\ handlers' = handlers
       ELSE /\ deployments' = Loaded(Discard(Deployments, old_name[1]))
            /\ response' = NoResponse
            /\ handlers' =
                  [handlers EXCEPT
                      ![h] = Editing(name, Get(Deployments, old_name[1]),
                                     form)]

\* The rest of the POST of edit: the form is taken apart, the files of the
\* old deployment are removed and _create_deployment adds the new one to the
\* set as it is by now.
EditEnd(h) ==
    /\ handlers[h].pc = "edit"
    /\ handlers' = [handlers EXCEPT ![h] = Idle]
    /\ request' = [Request("POST", "edit", handlers[h].name) EXCEPT
                      !.old_name = Given(handlers[h].deployment.name),
                      !.form = handlers[h].form]
    /\ UNCHANGED <<deploy_progress, tasks, stopper, pending>>
    /\ LET name == handlers[h].name
           form == handlers[h].form
           old_deployment == handlers[h].deployment
       IN  IF form.deploy_key = NotGiven
           THEN /\ response' = Response(500, "KeyError")
                /\ fs_ops' = <<>>
                /\ UNCHANGED <<deployments, disk, key_files, key_counter,
                               work_files>>
           ELSE
           LET keep == KeepDeployKey(form)
               old_key == IF ~keep /\ old_deployment.deploy_key
                                          \in DOMAIN key_files
                          THEN <<old_deployment.deploy_key>> ELSE <<>>
               files == Without(key_files, Range(old_key))
               secret_names == SplitSecretNames(form)
               secret_paths == old_secret_paths(secret_names, old_deployment)
               secret_files == check_old_secrets(secret_names, old_deployment)
               removals == RemoveOps(old_key \o secret_paths)
           IN  /\ work_files' = work_files \ Range(secret_paths)
               /\ IF Contains(Deployments, name)
                  THEN /\ key_files' = files
                       /\ response' = Response(500, "already exists")
                       /\ fs_ops' = removals
                       /\ UNCHANGED <<deployments, disk, key_counter>>
                  ELSE
                  LET deploy_key == DeployKeyOf(keep, old_deployment, name)
                      deployment == FormDeployment(name, deploy_key, form,
                                                   secret_files)
                  IN  /\ key_counter' = IF keep THEN key_counter
                                        ELSE key_counter + 1
                      /\ key_files' = IF keep THEN files
                                      ELSE generate_deploy_key(files, name)
                      /\ deployments' = Loaded(Add(Deployments, deployment))
                      /\ disk' = Write(deployments'.set)
                      /\ fs_ops' =
                            removals
                               \o (IF keep THEN <<>>
                                   ELSE generate_deploy_key_ops(files, name))
                               \o <<FileOp("write", <<"deployment.json", "">>)>>
                      /\ response' =
                            IF deploy_key \in DOMAIN key_files'
                            THEN [Response(200, "updated") EXCEPT
                                     !.state = IF keep THEN "original"
                                               ELSE "new",
                                     !.key = key_files'[deploy_key]]
                            ELSE Response(500, "no public key")

\* The forms of the step-by-step edits: the key is kept, or a new one is made.
StepForms ==
    {form \in EditForms : /\ form.deploy_key # NotGiven
                          /\ form.secret_files_names = Given(<<"env">>)}

NextReaders ==
    \/ \E h \in Handlers, name \in Names, old_name \in OldNames,
          form \in StepForms : EditBegin(h, name, old_name, form)
    \/ \E h \in Handlers : EditEnd(h)
    \/ \E h \in Handlers, name \in Names : EditGet(h, name, Given(name))
    \/ \E h \in Handlers, name \in Names : DeployGet(h, name)

SpecReaders == InitEdit /\ [][NextReaders]_vars

-----------------------------------------------------------------------------
(* Properties *)

\* The events a task has handed to the bus, and the external calls it made.
Publishes(log) == SelectSeq(log, LAMBDA e : e.kind = "publish")
Calls(log) == SelectSeq(log, LAMBDA e : e.kind = "call")

Terminal == {"success", "error"}

\* The records of the progress map that hold a thread.
Underway == {n \in DOMAIN deploy_progress : deploy_progress[n].thread # NoThread}

\* C1: a POST of deploy for a name whose progress record holds a thread is
\* answered 'already underway' in that step: no thread object is made or
\* started, the progress map is as before and the handler is free again.
C1_UnderwayIsRefused ==
    [][\A h \in Handlers, n \in Names :
          (DeployPostCheck(h, n) /\ n \in Underway)
              => /\ response'.body = "already underway"
                 /\ tasks' = tasks
                 /\ deploy_progress' = deploy_progress
                 /\ handlers'[h].pc = "idle"]_vars

\* C1 witness: a request was refused while the record of its name held a thread.
C1_Witness ==
    /\ response.body = "already underway"
    /\ Underway # {}

\* C2: no two threads that were started and have not ended deploy the same
\* name.
C2_SingleFlight ==
    \A t, u \in Threads :
        (t # u /\ IsAlive(tasks[t]) /\ IsAlive(tasks[u]))
            => tasks[t].name # tasks[u].name

\* C3: a progress record reaches a terminal state unless its task was
\* stopped; so no record still holds the thread of a task that has ended
\* without being stopped, since no later event can make that record terminal.
C3_EndedTaskLeftTerminalRecord ==
    \A n \in Underway :
        LET tk == tasks[deploy_progress[n].thread]
        IN  IsFinished(tk) => tk.stop

\* The step of the pipeline that publishes an event with this message.
StepOf(message) ==
    CASE message[1] = "Checking Jenkins build state" -> 1
      [] message[1] = "Updating Git repository" -> 2
      [] message[1] \in {"Collecting artifacts", "Collecting artifact"} -> 3
      [] message[1] = "Writing secret files" -> 4
      [] message[1] = "Runnning script" -> 5
      [] message[1] = "Restarting service" -> 6
      [] message[1] \in {"BigBoat compose files were unchanged, skipping.",
                         "Updating BigBoat compose files",
                         "Updating BigBoat instances"} -> 7
      [] message[1] = "Finished deployment" -> 8

\* The steps of the pipeline that the deployment of a task enables.
EnabledStep(tk, step) ==
    CASE step = 1 -> tk.deployment.jenkins_job # ""
      [] step = 3 -> tk.last_build.found /\ tk.deployment.artifacts
      [] step = 5 -> tk.deployment.script # ""
      [] step = 6 -> \E i \in DOMAIN tk.deployment.services :
                        tk.deployment.services[i] # ""
      [] step = 7 -> tk.deployment.bigboat_url # ""
      [] OTHER -> TRUE

\* The progress and success events of a task, in the order of their publishing.
PipelineEvents(tk) ==
    SelectSeq(tk.log, LAMBDA e : e.kind = "publish" /\ e.state # "error")

\* C4: the events of a task come in the order of the pipeline, and when an
\* event of a step is published every earlier step that the deployment
\* enables has published an event before it.
C4_PipelineOrder ==
    \A t \in Threads :
        LET events == PipelineEvents(tasks[t])
        IN  \A j \in DOMAIN events :
               /\ \A i \in 1 .. j - 1 :
                     StepOf(events[i].message) <= StepOf(events[j].message)
               /\ \A step \in 1 .. StepOf(events[j].message) - 1 :
                     EnabledStep(tasks[t], step)
                         => \E i \in 1 .. j - 1 :
                               StepOf(events[i].message) = step

\* C4 witness: a task went through every step of the pipeline to success.
C4_Witness ==
    \E t \in Threads :
        /\ tasks[t].pc = "done"
        /\ {StepOf(e.message) : e \in Range(PipelineEvents(tasks[t]))} = 1 .. 8

ErrorEvents(tk) ==
    SelectSeq(tk.log, LAMBDA e : e.kind = "publish" /\ e.state = "error")

\* C5: after a step raised RuntimeError or ValueError the task makes no
\* further external call and publishes no success; it publishes at most one
\* error event and, when it ends without having been stopped, exactly one,
\* which carries the message of the error and is the last thing it did.
C5_ErrorEndsPipeline ==
    /\ [](\A t \in Threads :
             LET tk == tasks[t]
             IN  tk.error # "" =>
                    /\ \A i \in DOMAIN tk.log : tk.log[i].state # "success"
                    /\ Len(ErrorEvents(tk)) <= 1
                    /\ (IsFinished(tk) /\ ~tk.stop) =>
                          /\ Len(ErrorEvents(tk)) = 1
                          /\ tk.log[Len(tk.log)] =
                                Published("error", Message(tk.error, tk.error_arg)))
    /\ [][\A t \in Threads :
             tasks[t].error # "" => Calls(tasks'[t].log) = Calls(tasks[t].log)]_vars

\* C5 witness: the script failed after the earlier steps, the task was not
\* stopped and it has published the error.
C5_Witness ==
    \E t \in Threads :
        /\ tasks[t].error = "Could not run script"
        /\ tasks[t].pc = "done"
        /\ ~tasks[t].stop
        /\ Len(ErrorEvents(tasks[t])) = 1

\* C6, as claimed: once the stop flag of a task is set the task hands no
\* further event to the bus.
C6_NoEventAfterStop ==
    [][\A t \in Threads :
          tasks[t].stop
              => Publishes(tasks'[t].log) = Publishes(tasks[t].log)]_vars

\* C6, amended: a stopped task that is not between the flag test and the bus
\* call of _publish publishes nothing and never gets past a flag test again:
\* its next _publish ends the thread.  An event whose flag test passed before
\* stop() is still published, and it is the last one.
C6_StoppedTaskEndsAtNextPublish ==
    [][\A t \in Threads :
          tasks[t].stop =>
             /\ tasks[t].phase # "deliver" =>
                   /\ Publishes(tasks'[t].log) = Publishes(tasks[t].log)
                   /\ tasks'[t].phase # "deliver"
             /\ (tasks[t].phase = "check" /\ tasks'[t] # tasks[t])
                   => IsFinished(tasks'[t])
             /\ (tasks[t].phase = "deliver" /\ tasks'[t] # tasks[t]) =>
                   /\ Len(Publishes(tasks'[t].log)) =
                         Len(Publishes(tasks[t].log)) + 1
                   /\ tasks'[t].phase # "deliver"]_vars

\* C6 witness: a stopped task has ended in the middle of the pipeline, after
\* some events and without a terminal one.
C6_Witness ==
    \E t \in Threads :
        /\ tasks[t].stop
        /\ tasks[t].pc = "done"
        /\ Len(Publishes(tasks[t].log)) >= 2
        /\ \A i \in DOMAIN tasks[t].log : tasks[t].log[i].state \notin Terminal

\* C7: when the stop listener returns, the progress map is empty and none of
\* the threads it stopped is still running.
C7_StoppedThreadsHaveEnded ==
    [][StopClear =>
          /\ deploy_progress' = EmptyProgress
          /\ \A t \in stopper.stopped : ~IsAlive(tasks'[t])]_vars

\* C8: an event delivered for a name sets state and message of the record of
\* that name; the thread of the record becomes None when the state is success
\* or error and stays what it was otherwise.
C8_TerminalEventDropsThread ==
    [][\A t \in Threads :
          LET n == tasks[t].name
              k == Len(tasks[t].log) + 1
          IN  (/\ Len(tasks'[t].log) >= k
               /\ tasks'[t].log[k].kind = "publish"
               /\ n \in DOMAIN deploy_progress)
                  => /\ n \in DOMAIN deploy_progress'
                     /\ deploy_progress'[n].state = tasks'[t].log[k].state
                     /\ deploy_progress'[n].message = tasks'[t].log[k].message
                     /\ deploy_progress'[n].thread =
                           IF tasks'[t].log[k].state \in Terminal
                           THEN NoThread
                           ELSE deploy_progress[n].thread]_vars

\* C8 witness: a record keeps the message of an error event without a thread.
C8_Witness ==
    \E n \in DOMAIN deploy_progress :
        /\ deploy_progress[n].state = "error"
        /\ deploy_progress[n].message[1] = "Could not update Git repository"
        /\ deploy_progress[n].thread = NoThread

\* C9: a GET of deploy for a name in the set shows state and message of the
\* progress record of the name, or redirects to the list when there is none;
\* it leaves the progress map, the threads, the set of deployments and its
\* file as they were.
C9_GetOnlyReads ==
    [][\A h \in Handlers, n \in Names :
          (DeployGet(h, n) /\ Contains(Deployments, n)) =>
             /\ IF n \in DOMAIN deploy_progress
                THEN /\ response'.status = 200
                     /\ response'.body = "progress"
                     /\ response'.state = deploy_progress[n].state
                     /\ response'.message = deploy_progress[n].message
                ELSE response' = Response(302, "list")
             /\ deploy_progress' = deploy_progress
             /\ tasks' = tasks
             /\ handlers' = handlers
             /\ deployments'.set = Deployments
             /\ disk' = disk]_vars

\* C9 witness: a GET has shown the record of a task in progress.
C9_Witness ==
    /\ response.body = "progress"
    /\ response.state = "progress"
    /\ response.message[1] = "Writing secret files"

\* C10: a POST of create for a name that is not in the set appends one
\* deployment of that name and keeps the others; its key is newer than every
\* key file there was, an old file at the path of the key is removed before
\* the key is generated, no other key file changes, and the file of the set
\* is written once, with the new set.
C10_CreateAddsOne ==
    [][\A h \in Handlers, name \in FormNames, form \in Forms :
          (CreatePost(h, name, form) /\ ~Contains(Deployments, name)) =>
             LET old == Deployments
                 new == deployments'.set
                 key == KeyFile(name)
                 ops == fs_ops'
             IN  /\ Len(new) = Len(old) + 1
                 /\ SubSeq(new, 1, Len(old)) = old
                 /\ new[Len(new)].name = name
                 /\ new[Len(new)].deploy_key = key
                 /\ key \in DOMAIN key_files'
                 /\ \A p \in DOMAIN key_files :
                       /\ key_files[p] < key_files'[key]
                       /\ p # key => /\ p \in DOMAIN key_files'
                                     /\ key_files'[p] = key_files[p]
                 /\ DOMAIN key_files' = DOMAIN key_files \cup {key}
                 /\ response'.key = key_files'[key]
                 /\ \E g \in DOMAIN ops :
                       /\ ops[g] = FileOp("generate", key)
                       /\ key \in DOMAIN key_files
                             => \E r \in 1 .. g - 1 :
                                   ops[r] = FileOp("remove", key)
                 /\ Cardinality({w \in DOMAIN ops : ops[w].op = "write"}) = 1
                 /\ disk' = [exists |-> TRUE, configs |-> new]]_vars

\* C10 witness: a deployment was created next to another one, over a stale
\* key file.
C10_Witness ==
    /\ response.body = "created"
    /\ Len(deployments.set) = 2
    /\ fs_ops[1].op = "remove"

\* The request of the step that leads to the next state.
Handled(method, page) == request'.method = method /\ request'.page = page

\* C11: a POST of create for a name that is in the set is answered with the
\* error 'already exists'; the set, its file and the key files are as before
\* and no file operation takes place.
C11_DuplicateCreateChangesNothing ==
    [][(Handled("POST", "create")
           /\ request'.name[1] \in DeploymentNames(Deployments))
          => /\ response' = Response(500, "already exists")
             /\ deployments'.set = Deployments
             /\ disk' = disk
             /\ key_files' = key_files
             /\ key_counter' = key_counter
             /\ fs_ops' = <<>>]_vars

\* C11 witness: a create was refused for the name of a deployment that an
\* earlier create had added, and the key of that deployment is still there.
C11_Witness ==
    /\ request.page = "create"
    /\ response.body = "already exists"
    /\ request.name[1] = "test"
    /\ KeyFile("test") \in DOMAIN key_files
    /\ key_files[KeyFile("test")] = key_counter

\* A POST of edit that names a deployment of the set as the old one and
\* gives it a name that is its own or free.
EditsDeployment ==
    /\ Handled("POST", "edit")
    /\ request'.name # NotGiven
    /\ request'.old_name # NotGiven
    /\ request'.old_name[1] \in DeploymentNames(Deployments)
    /\ \/ request'.name = request'.old_name
       \/ request'.name[1] \notin DeploymentNames(Deployments)

\* The number of times the step just taken wrote the file of the set.
Writes(ops) == Cardinality({w \in DOMAIN ops : ops[w].op = "write"})

\* The step removed the file at the path before it generated a key.
RemovedBeforeGenerate(ops, path) ==
    \E r, g \in DOMAIN ops :
        /\ r < g
        /\ ops[r] = FileOp("remove", path)
        /\ ops[g].op = "generate"

\* C12: a POST of edit without the deploy_key checkbox succeeds: the key
\* file of the old deployment is removed before a new key is generated, the
\* set holds the deployment under the name and not under a different old
\* name, the page says 'new' deploy key and the file is written once.
C12_KeyRotationSucceeds ==
    [][(EditsDeployment /\ request'.form.deploy_key \in {NotGiven, Given("")})
          => LET old == Get(Deployments, request'.old_name[1])
                 name == request'.name[1]
             IN  /\ response'.status = 200
                 /\ response'.state = "new"
                 /\ old.deploy_key \in DOMAIN key_files
                       => RemovedBeforeGenerate(fs_ops', old.deploy_key)
                 /\ name \in DeploymentNames(deployments'.set)
                 /\ name # old.name
                       => old.name \notin DeploymentNames(deployments'.set)
                 /\ response'.key = key_counter'
                 /\ key_counter' = key_counter + 1
                 /\ Writes(fs_ops') = 1
                 /\ disk' = Write(deployments'.set)]_vars

\* A POST of edit with the deploy_key checkbox set for a deployment of the set.
KeepsKeyOfDeployment ==
    /\ Handled("POST", "edit")
    /\ request'.name # NotGiven
    /\ request'.old_name # NotGiven
    /\ request'.old_name[1] \in DeploymentNames(Deployments)
    /\ request'.form.deploy_key # NotGiven
    /\ request'.form.deploy_key[1] # ""

\* The step removed or generated a key file.
TouchesKeys(ops) ==
    \E i \in DOMAIN ops : ops[i].op = "generate" \/ ops[i].path[1] = "key"

\* What C13 says of a step: the deployment of the set under the name has
\* the key path of the old deployment, no key file was removed or generated,
\* the page says 'original' deploy key and the file was written once.
KeptDeployKey ==
    LET old == Get(Deployments, request'.old_name[1])
        name == request'.name[1]
    IN  /\ name \in DeploymentNames(deployments'.set)
        /\ Get(deployments'.set, name).deploy_key = old.deploy_key
        /\ key_files' = key_files
        /\ key_counter' = key_counter
        /\ ~TouchesKeys(fs_ops')
        /\ response'.status = 200
        /\ response'.state = "original"
        /\ Writes(fs_ops') = 1
        /\ disk' = Write(deployments'.set)

\* C13, as claimed: every POST of edit with the checkbox set keeps the key.
C13_KeepsDeployKey == [][KeepsKeyOfDeployment => KeptDeployKey]_vars

\* C13, amended: a POST of edit with the checkbox set never removes or
\* generates a key file; when the name is the old name or is free, and the
\* key file of the old deployment exists, the deployment under the name has
\* the old key path, the page says 'original' deploy key and the file is
\* written once; when the name is that of another deployment the request
\* fails and writes nothing.
C13_KeepsDeployKeyUnderFreeName ==
    [][KeepsKeyOfDeployment =>
          /\ key_files' = key_files /\ ~TouchesKeys(fs_ops')
          /\ IF EditsDeployment
             THEN Get(Deployments, request'.old_name[1]).deploy_key
                     \in DOMAIN key_files => KeptDeployKey
             ELSE /\ response' = Response(500, "already exists")
                  /\ Writes(fs_ops') = 0
                  /\ disk' = disk]_vars

\* C13 witness: a deployment was renamed with the checkbox set and has the
\* key of its old name.
C13_Witness ==
    /\ request.page = "edit"
    /\ response.state = "original"
    /\ request.name = Given("test")
    /\ request.old_name = Given("monetdb-import")
    /\ Get(deployments.set, "test").deploy_key = KeyFile("monetdb-import")

\* C14: a POST of edit with a name and without old_name is answered with 400
\* "Parameter 'old_name' required"; the set, its file and the key files are
\* as before.
C14_OldNameRequired ==
    [][(Handled("POST", "edit") /\ request'.name # NotGiven
           /\ request'.old_name = NotGiven)
          => /\ response'.status = 400
             /\ deployments'.set = Deployments
             /\ disk' = disk
             /\ key_files' = key_files]_vars

\* An edit request for a deployment that is not in the set: a GET by its
\* name, a POST by its old_name.
EditsUnknownDeployment ==
    /\ request'.page = "edit"
    /\ request'.name # NotGiven
    /\ \/ /\ request'.method = "GET"
          /\ request'.name[1] \notin DeploymentNames(Deployments)
       \/ /\ request'.method = "POST"
          /\ request'.old_name # NotGiven
          /\ request'.old_name[1] \notin DeploymentNames(Deployments)

Reconciles == Handled("POST", "edit") /\ response'.status = 200

\* The content a position of the incoming names takes from the old mapping.
Carried(old_secrets, i) ==
    IF i <= Len(old_secrets) THEN old_secrets[i][2] ELSE ""

\* The first and the last position of a name in a list.
First(names, name) ==
    CHOOSE i \in DOMAIN names :
        names[i] = name /\ \A k \in DOMAIN names : names[k] = name => i <= k

Last(names, name) ==
    CHOOSE i \in DOMAIN names :
        names[i] = name /\ \A k \in DOMAIN names : names[k] = name => k <= i

\* C16, as claimed: the mapping of the edited deployment has the non-empty
\* incoming names in their order, each with the content of the old mapping
\* at its position, or empty content beyond the old mapping.
C16_ReconciledByPosition ==
    [][Reconciles =>
          LET new == SplitSecretNames(request'.form)
              old == Get(Deployments, request'.old_name[1]).secret_files
              res == Get(deployments'.set, request'.name[1]).secret_files
          IN  /\ Range(SecretNames(res)) = Range(new) \ {""}
              /\ \A j, k \in DOMAIN res :
                    j < k => \E m, n \in DOMAIN new :
                                m < n /\ new[m] = res[j][1] /\ new[n] = res[k][1]
              /\ \A i \in DOMAIN new :
                    new[i] # "" => <<new[i], Carried(old, i)>> \in Range(res)
      ]_vars

\* C16, amended: the mapping of the edited deployment has each non-empty
\* incoming name once, in the order of the first occurrences of the names,
\* each with the content of the old mapping at the position of the last
\* occurrence of the name, or empty content when that position is beyond
\* the old mapping.
C16_ReconciledByLastPosition ==
    [][Reconciles =>
          LET new == SplitSecretNames(request'.form)
              old == Get(Deployments, request'.old_name[1]).secret_files
              res == Get(deployments'.set, request'.name[1]).secret_files
          IN  /\ Range(SecretNames(res)) = Range(new) \ {""}
              /\ \A j, k \in DOMAIN res :
                    j < k => First(new, res[j][1]) < First(new, res[k][1])
              /\ \A j \in DOMAIN res :
                    res[j][2] = Carried(old, Last(new, res[j][1]))
      ]_vars

\* C16 witness: an edit moved the content of the first old name to a new
\* first name, dropped an empty name and started a third name empty.
C16_Witness ==
    /\ request.page = "edit"
    /\ response.status = 200
    /\ request.form.secret_files_names = Given(<<"cert", "", "new">>)
    /\ Get(deployments.set, "monetdb-import").secret_files
          = <<<<"cert", "PASSWORD=1">>, <<"new", "">>>>

\* C17: a POST of edit for a deployment of the set removes the files of the
\* old secret names from the working copy of the old deployment exactly when
\* the incoming names are not the old names; with the same names no file is
\* removed and the edited deployment has the old mapping.
C17_OldSecretFilesRemoved ==
    [][(Handled("POST", "edit") /\ request'.name # NotGiven
           /\ request'.old_name # NotGiven
           /\ request'.old_name[1] \in DeploymentNames(Deployments))
          => LET old == Get(Deployments, request'.old_name[1])
                 old_names == SecretNames(old.secret_files)
                 paths == {SecretPath(old.git_path, old_names[i]) :
                              i \in DOMAIN old_names}
             IN  IF SplitSecretNames(request'.form) # old_names
                 THEN work_files' = work_files \ paths
                 ELSE /\ work_files' = work_files
                      /\ EditsDeployment =>
                            /\ request'.name[1]
                                  \in DeploymentNames(deployments'.set)
                            /\ Get(deployments'.set,
                                   request'.name[1]).secret_files
                                  = old.secret_files]_vars

\* No two deployments of a sequence have the same name.
UniqueNames(set) ==
    \A i, j \in DOMAIN set : set[i].name = set[j].name => i = j

\* C18: every deployment of the set has a name that is not empty and no two
\* deployments of the set have the same name.
C18_NamesUniqueAndNotEmpty ==
    /\ UniqueNames(deployments.set)
    /\ \A i \in DOMAIN deployments.set : deployments.set[i].name # ""

\* The place of the deployment of a name in the order of a set.
Position(set, name) == CHOOSE i \in DOMAIN set : set[i].name = name

\* C19: Deployments.add of a value whose name is in the set returns without
\* a change of the set: the deployment stored under the name keeps all its
\* fields; and after any add, adding any value of the same name again leaves
\* the set as it is.
C19_DuplicateAddIgnored ==
    [][request'.method = "add" =>
          /\ response' = Returned
          /\ request'.name[1] \in DeploymentNames(Deployments) =>
                /\ deployments'.set = Deployments
                /\ Get(deployments'.set, request'.name[1])
                      = Get(Deployments, request'.name[1])
          /\ \A value \in SetValues :
                value.name = request'.name[1] =>
                    Add(deployments'.set, value) = deployments'.set]_vars

\* C19 witness: the first call added a value with a script under the name of
\* a deployment without one, and the set is the set of the file.
C19_Witness ==
    /\ pending.requests = MaxRequests - 1
    /\ request.method = "add"
    /\ request.name = Given("test")
    /\ request.form.script = "install"
    /\ Contains(deployments.set, "test")
    /\ Get(deployments.set, "test").script = ""
    /\ deployments.set = disk.configs

\* C20: Deployments.discard returns without an exception; the set loses the
\* deployment of the name and no other, the others keep their fields and
\* their order, and with a name that is not in the set the set is as before.
C20_DiscardRemovesOnlyTheName ==
    [][request'.method = "discard" =>
          LET name == request'.name[1]
              others == DeploymentNames(Deployments) \ {name}
          IN  /\ response' = Returned
              /\ DeploymentNames(deployments'.set) = others
              /\ Len(deployments'.set) = Cardinality(others)
              /\ \A n \in others :
                    Get(deployments'.set, n) = Get(Deployments, n)
              /\ \A m, n \in others :
                    Position(deployments'.set, m) < Position(deployments'.set, n)
                        <=> Position(Deployments, m) < Position(Deployments, n)
              /\ name \notin DeploymentNames(Deployments) =>
                    deployments'.set = Deployments]_vars

\* C20 witness: the first call discarded the first of the two deployments of
\* the file and the second is the set.
C20_Witness ==
    /\ pending.requests = MaxRequests - 1
    /\ request.method = "discard"
    /\ request.name = Given("monetdb-import")
    /\ disk.configs = <<Plain("monetdb-import"), Install("test")>>
    /\ deployments.set = <<Install("test")>>

\* The keys of a dict as a set, and the dict of a name in a sequence of
\* dicts that have names.
KeySet(dict) == Range(Keys(dict))

\* The sets that the application makes: the file that write makes of one
\* is read as the same records.
RecordSets ==
    {<<>>, <<Plain("monetdb-import")>>,
     <<Secret("monetdb-import"), Install("test")>>,
     <<WithSecrets("test", TwoSecrets), Plain("")>>}

FileHoldsRecords ==
    \A set \in RecordSets :
        RecordsOf(read(write(DictsOf(set)), FIELDS), 1, <<>>) = set

\* A set that was read is the set that was written, up to the defaults of
\* the fields: as many deployments, each with every key it had and the value
\* of the key, a mapping of secret files in its order among them, and with
\* the default of every field that it did not have.
RoundTrip(written, got) ==
    /\ Len(got) = Len(written)
    /\ \A i \in DOMAIN written :
          /\ KeySet(got[i]) = KeySet(written[i]) \cup Range(FIELDS)
          /\ \A key \in KeySet(written[i]) :
                Item(got[i], key) = Item(written[i], key)
          /\ \A key \in Range(FIELDS) \ KeySet(written[i]) :
                Item(got[i], key) = FieldDefault(key)

\* C21: a read that follows a write of a set yields the set that was
\* written, up to the defaults of the fields.
C21_WriteThenRead ==
    [][(request.method = "write" /\ request'.method = "read")
          => /\ RoundTrip(deployments.set, deployments'.set)
             /\ FileHoldsRecords]_vars

\* C21 witness: a set of a deployment with two secret files and a
\* deployment with a name alone was written and read.
C21_Witness ==
    /\ request.method = "read"
    /\ Len(deployments.set) = 2
    /\ deployments.set[1] = DictOf(WithSecrets("monetdb-import", TwoSecrets))
    /\ Item(deployments.set[2], "name") = Str("test")
    /\ Item(deployments.set[2], "git_branch") = Str("master")
    /\ read(disk, FIELDS) = deployments.set

\* The name Deployments.read gives an object of the file.
NameOf(object) ==
    IF "name" \in KeySet(object) THEN Item(object, "name") ELSE Str("")

\* C22: Deployments.read of a missing file yields an empty set; of a file,
\* it yields a deployment for the first object of each name, in the order
\* of the file, that has every key of the object with its value and every
\* field of the schema that the object does not have with the default that
\* is declared for it, or with the empty string.
C22_ReadGivesEveryField ==
    [][request'.method = "read" =>
          IF ~disk.exists THEN deployments'.set = <<>>
          ELSE LET objects == json_load(disk.text).value
                   firsts == SelectSeq([o \in DOMAIN objects |-> o],
                                LAMBDA o : \A n \in 1 .. o - 1 :
                                    NameOf(objects[n]) # NameOf(objects[o]))
                   got == deployments'.set
               IN  /\ Len(got) = Len(firsts)
                   /\ \A i \in DOMAIN got :
                         LET object == objects[firsts[i]]
                         IN  /\ KeySet(got[i])
                                   = KeySet(object) \cup Range(FIELDS)
                             /\ \A key \in KeySet(object) :
                                   Item(got[i], key) = Item(object, key)
                             /\ \A key \in Range(FIELDS) \ KeySet(object) :
                                   Item(got[i], key) = FieldDefault(key)
      ]_vars

\* C22 witness: an object with some keys and an object without any were
\* read from a file as two deployments with the defaults of the fields.
C22_Witness ==
    /\ request.method = "read"
    /\ disk.exists
    /\ Len(json_load(disk.text).value) = 2
    /\ json_load(disk.text).value[2] = Dict(<<>>)
    /\ Len(deployments.set) = 2
    /\ Item(deployments.set[1], "jenkins_job") = Str("build-test")
    /\ Item(deployments.set[1], "git_branch") = Str("master")
    /\ Item(deployments.set[1], "jenkins_git") = Bool(FALSE)
    /\ Item(deployments.set[2], "name") = Str("")
    /\ Item(deployments.set[2], "jenkins_git") = Bool(TRUE)
    /\ Item(deployments.set[2], "jenkins_states") = List(<<Str("SUCCESS")>>)

\* The conditions under which a build is one that check_jenkins may return
\* for a deployment.
Acceptable(build, deployment, head) ==
    /\ build.found
    /\ Cardinality(Range(build.branches)) = 1
    /\ ~build.building
    /\ build.result \in Range(deployment.jenkins_states)
    /\ deployment.jenkins_git => build.SHA1 = head

C24_NoRevisionCheck ==
    [][(request.method = "check_jenkins" /\ ~request.deployment.jenkins_git) =>
        /\ response'.revisions = <<>>
        /\ \A head \in Heads \cup {"1234abcd"} :
               check_jenkins(request.deployment, request.job, head) = response']_vars

\* A build whose revision is not the head upstream is returned.
C24_Witness ==
    /\ request.method = "check_jenkins"
    /\ response # NoResponse
    /\ ~request.deployment.jenkins_git
    /\ response.build.found
    /\ response.build.SHA1 # request.head

\* The words of the events and calls of the Jenkins check and of the
\* collection of artifacts.
BuildWords ==
    {"Checking Jenkins build state", "check_jenkins", "Collecting artifacts",
     "Collecting artifact", "artifact"}

\* C25: a task whose deployment has no jenkins_job publishes no 'Checking
\* Jenkins build state' event and never calls check_jenkins, collects no
\* artifact even when artifacts is set, and goes to the update of the Git
\* repository: that event is the first thing it does.
C25_NoJobNoBuild ==
    \A t \in Threads :
        LET tk == tasks[t]
        IN  (tk.pc \notin {"none", "initial"} /\ tk.deployment.jenkins_job = "") =>
               /\ \A i \in DOMAIN tk.log : tk.log[i].message[1] \notin BuildWords
               /\ ~tk.last_build.found
               /\ tk.log # <<>> =>
                      tk.log[1] = Published("progress",
                                            Message("Updating Git repository", ""))
               /\ (tk.log = <<>> /\ IsAlive(tk)) => tk.pc = "git"

\* A task without a Jenkins job whose deployment wants artifacts has updated
\* the repository and ended with success.
C25_Witness ==
    \E t \in Threads :
        /\ tasks[t].deployment.jenkins_job = ""
        /\ tasks[t].deployment.artifacts
        /\ tasks[t].pc = "done"
        /\ Called("from_source", "") \in Range(tasks[t].log)
        /\ tasks[t].log[Len(tasks[t].log)] =
               Published("success", Message("Finished deployment", ""))

\* The deployment of a task has no secret file, no script and no service.
NothingToInstall(tk) ==
    /\ tk.deployment.secret_files = <<>>
    /\ tk.deployment.script = ""
    /\ tk.deployment.services = <<>>

\* C26: with no services, no secret files and no script, the steps that
\* write the secret files, run the script and restart the services write no
\* file, make no external call and raise no error: from the event 'Writing
\* secret files' the task goes to the dashboard step or, without a BigBoat
\* URL, to the publish of success, and a task that was not stopped ends with
\* that event.
C26_EmptyStepsDoNothing ==
    /\ [][\A t \in Threads :
             (NothingToInstall(tasks[t]) /\ tasks[t].pc = "secret"
                 /\ tasks[t].phase = "deliver" /\ ~tasks[t].stop
                 /\ tasks'[t].log # tasks[t].log) =>
                /\ tasks'[t].log =
                       Append(tasks[t].log,
                              Published("progress",
                                        Message("Writing secret files", "")))
                /\ work_files' = work_files
                /\ tasks'[t].error = ""
                /\ tasks'[t].pc =
                       IF tasks[t].deployment.bigboat_url = ""
                       THEN "success" ELSE "bigboat"]_vars
    /\ [](\A t \in Threads :
             LET tk == tasks[t]
             IN  (NothingToInstall(tk) /\ tk.deployment.bigboat_url = ""
                     /\ IsFinished(tk) /\ ~tk.stop
                     /\ Published("progress", Message("Writing secret files", ""))
                            \in Range(tk.log)) =>
                    /\ tk.pc = "done"
                    /\ tk.error = ""
                    /\ tk.log[Len(tk.log)] =
                           Published("success", Message("Finished deployment", ""))
                    /\ tk.log[Len(tk.log) - 1] =
                           Published("progress", Message("Writing secret files", "")))

SkipEvent ==
    Published("progress",
              Message("BigBoat compose files were unchanged, skipping.", ""))

\* The calls of the BigBoat client.
DashboardCalls == {Called("update_compose", ""), Called("update_instance", "")}

\* C27: with a BigBoat URL and key, when the compose files are unchanged
\* between the previous and the current head, the task publishes the
\* 'skipped' progress event, calls the dashboard never, and goes on to
\* publish the terminal success: a task that was not stopped ends with the
\* skip event followed by success.
C27_UnchangedComposeSkips ==
    /\ [][\A t \in Threads :
             (tasks[t].pc = "bigboat_skip" /\ tasks[t].phase = "deliver"
                 /\ ~tasks[t].stop /\ tasks'[t].log # tasks[t].log) =>
                /\ tasks'[t].log = Append(tasks[t].log, SkipEvent)
                /\ tasks'[t].error = ""
                /\ tasks'[t].pc = "success"]_vars
    /\ [](\A t \in Threads :
             LET tk == tasks[t]
             IN  /\ tk.pc = "bigboat_skip" =>
                        /\ tk.deployment.bigboat_url # ""
                        /\ tk.deployment.bigboat_key # ""
                 /\ (tk.pc = "bigboat_skip" \/ SkipEvent \in Range(tk.log)) =>
                        Range(tk.log) \cap DashboardCalls = {}
                 /\ (SkipEvent \in Range(tk.log) /\ IsFinished(tk) /\ ~tk.stop) =>
                        /\ tk.pc = "done"
                        /\ tk.log[Len(tk.log)] =
                               Published("success",
                                         Message("Finished deployment", ""))
                        /\ tk.log[Len(tk.log) - 1] = SkipEvent)

\* The tasks of a name that hand an event to the bus in this step.
Delivering(n) ==
    {t \in Threads :
        /\ tasks[t].name = n
        /\ tasks[t].phase = "deliver"
        /\ Len(Publishes(tasks'[t].log)) = Len(Publishes(tasks[t].log)) + 1}

\* The handlers that store a new thread under a name in this step.
Registering(n) ==
    {h \in Handlers :
        /\ handlers[h].pc = "admitted"
        /\ handlers[h].name = n
        /\ handlers'[h].pc = "registered"}

\* C29: the progress record of a name holds state and message of the deploy
\* event delivered last for that name, or 'starting' and 'Thread is starting'
\* when the task admitted last has published nothing: a step changes the
\* record of a name only by delivering an event of a task of that name,
\* whose state and message the record then holds, or by storing the thread
\* of a newly admitted task of that name in the initial record; the records
\* of all other names stay as they are.
C29_RecordHoldsLastEvent ==
    [][\A n \in DOMAIN deploy_progress' :
          LET record == deploy_progress'[n]
          IN  IF Delivering(n) # {} /\ n \in DOMAIN deploy_progress
              THEN \E t \in Delivering(n) :
                      LET event == tasks'[t].log[Len(tasks[t].log) + 1]
                      IN  /\ event.kind = "publish"
                          /\ record.state = event.state
                          /\ record.message = event.message
              ELSE IF Registering(n) # {}
              THEN /\ record.state = "starting"
                   /\ record.message = Message("Thread is starting", "")
                   /\ \E h \in Registering(n) :
                          /\ record.thread = handlers'[h].thread
                          /\ tasks'[record.thread].log = <<>>
              ELSE /\ n \in DOMAIN deploy_progress
                   /\ record = deploy_progress[n]]_vars

\* Two names have a record: the task of one has published success while the
\* record of the other holds the event of its script.
C29_Witness ==
    /\ DOMAIN deploy_progress = {"monetdb-import", "test"}
    /\ deploy_progress["monetdb-import"].state = "success"
    /\ deploy_progress["test"].message = Message("Runnning script", "install")

\* C30: after a task of a name has published success or error, the next POST
\* of deploy for that name is admitted: the handler makes a new thread
\* object, stores it in the record of the name, which is reset to 'starting'
\* and 'Thread is starting', and starts it.
C30_TerminalRecordAdmits ==
    [][\A h \in Handlers :
          /\ \A n \in DOMAIN deploy_progress :
                 (DeployPostCheck(h, n) /\ deploy_progress[n].state \in Terminal
                     /\ Contains(Deployments, n)) =>
                    /\ handlers'[h].pc = "admitted"
                    /\ handlers'[h].name = n
                    /\ response'.body # "already underway"
          /\ (handlers[h].pc = "admitted" /\ handlers'[h] # handlers[h]) =>
                 LET t == handlers'[h].thread
                 IN  /\ handlers'[h].pc = "registered"
                     /\ tasks[t].pc = "none"
                     /\ tasks'[t] = NewTask(handlers[h].deployment)
                     /\ deploy_progress'[handlers[h].name] =
                            [state |-> "starting",
                             message |-> Message("Thread is starting", ""),
                             thread |-> t]
          /\ (handlers[h].pc = "registered" /\ handlers'[h] # handlers[h]) =>
                 /\ IsAlive(tasks'[handlers[h].thread])
                 /\ tasks'[handlers[h].thread].name = handlers[h].name
                 /\ response' = Response(200, "has started")]_vars

\* A second task of the name was started after the first had published its
\* terminal event, and the record holds the second.
C30_Witness ==
    \E t, u \in Threads :
        /\ t # u
        /\ tasks[t].name = tasks[u].name
        /\ tasks[t].pc = "done"
        /\ tasks[t].log # <<>>
        /\ tasks[t].log[Len(tasks[t].log)].state \in Terminal
        /\ tasks[u].log = <<>>
        /\ IsAlive(tasks[u])
        /\ response = Response(200, "has started")
        /\ deploy_progress[tasks[u].name] =
               [state |-> "starting",
                message |-> Message("Thread is starting", ""), thread |-> u]

\* A request without a session has no effect: the set of deployments, the
\* file, the key files, the working copies, the progress map, the tasks and
\* the handlers are as before and no file operation was made.
NoEffect ==
    /\ UNCHANGED <<deployments, disk, key_files, key_counter, deploy_progress,
                   tasks, handlers, stopper, work_files>>
    /\ fs_ops' = <<>>

\* The parameters a request gives for the page, wherever it sends them.
Parameters(req) ==
    SelectSeq(<<"name", "old_name">>,
              LAMBDA key : IF key = "name" THEN req.name # NotGiven
                           ELSE req.old_name # NotGiven)

\* C28, as claimed: a request to list, create, edit or deploy without an
\* authenticated session is redirected to the index with the page and the
\* parameters of the request, and has no effect.
C28_RedirectCarriesParameters ==
    [][\A h \in Handlers, req \in Visits :
          Visit(NoSession, h, req) =>
             /\ response'.status = 302
             /\ response'.body = "index"
             /\ response'.location =
                    LoginIndex(req.page,
                               quote(query_string([req EXCEPT
                                         !.query = Parameters(req)], 1)))
             /\ NoEffect]_vars

\* C28, amended: a request to list, create, edit or deploy without an
\* authenticated session is redirected to the index with the page and the
\* quoted query string of the request, which leaves out the parameters sent
\* in the body, and has no effect.
C28_RedirectCarriesQueryString ==
    [][\A h \in Handlers, req \in Visits :
          Visit(NoSession, h, req) =>
             /\ response'.status = 302
             /\ response'.body = "index"
             /\ response'.location =
                    LoginIndex(req.page, quote(query_string(req, 1)))
             /\ \A i \in DOMAIN response'.location :
                    response'.location[i] \notin {"=", "&"}
             /\ NoEffect]_vars

\* A POST of edit without a session was redirected with both names, while a
\* task started by a request with a session runs.
C28_Witness ==
    /\ response.status = 302
    /\ response.body = "index"
    /\ request.method = "POST"
    /\ response.location =
           <<"index?page=", "edit", "&params=", "name", "%3D", "test", "%26",
             "old_name", "%3D", "monetdb-import">>
    /\ \E t \in Threads : IsAlive(tasks[t])
    /\ ~Contains(deployments.set, "test")

\* The build that decides a call: the last build of the branch or, when
\* there is none, of origin/branch.
Decisive(deployment, job) ==
    IF job[deployment.git_branch].found THEN job[deployment.git_branch]
    ELSE job[Origin(deployment.git_branch)]

\* C31: check_jenkins reports the first of the conditions that holds of the
\* deciding build, in the order merge request, stale revision, build not
\* complete, result not accepted; it reports 'Branch build could not be
\* found' exactly when neither the branch nor origin/branch has a build, and
\* it asks about origin/branch only when the branch has none.
C31_RejectionPriority ==
    [][request.method = "check_jenkins" =>
        LET deployment == request.deployment
            build == Decisive(deployment, request.job)
            merge == Cardinality(Range(build.branches)) > 1
            stale == deployment.jenkins_git /\ build.SHA1 # request.head
            rejected == build.result \notin Range(deployment.jenkins_states)
        IN  /\ response'.error = "Branch build could not be found"
                   <=> ~build.found
            /\ response'.queried =
                   IF request.job[deployment.git_branch].found
                   THEN <<deployment.git_branch>>
                   ELSE <<deployment.git_branch, Origin(deployment.git_branch)>>
            /\ build.found =>
                   response'.error =
                      CASE merge -> "Latest build is caused by merge request"
                        [] ~merge /\ stale ->
                              "Latest build is stale compared to Git repository"
                        [] ~merge /\ ~stale /\ build.building ->
                              "Build is not complete"
                        [] ~merge /\ ~stale /\ ~build.building /\ rejected ->
                              "Build result was not"
                        [] OTHER -> ""
            /\ response'.error = "Build result was not" =>
                   response'.detail =
                      <<join_or(deployment.jenkins_states, 1), build.result>>]_vars

\* A build of origin/master that is of a merge request, stale, building and
\* of a result that is not accepted was reported as caused by a merge
\* request, after master was asked about first.
C31_Witness ==
    /\ request.method = "check_jenkins"
    /\ response # NoResponse
    /\ response.error = "Latest build is caused by merge request"
    /\ response.queried = <<"master", "origin/master">>
    /\ request.deployment.jenkins_git
    /\ LET build == request.job["origin/master"]
       IN  /\ build.SHA1 # request.head
           /\ build.building
           /\ build.result \notin Range(request.deployment.jenkins_states)

\* The names of the services a task has asked systemctl to restart, in the
\* order of the calls.
Restarted(tk) ==
    LET calls == SelectSeq(tk.log, LAMBDA e : e.kind = "call"
                                             /\ e.message[1] = "restart")
    IN  [i \in DOMAIN calls |-> calls[i].message[2]]

\* The services of a deployment that have a name, in list order.
NamedServices(tk) == SelectSeq(tk.deployment.services, LAMBDA name : name # "")

\* C32: the services are restarted one at a time in list order, those
\* without a name left out; when a restart fails the task raises 'Could not
\* restart service' naming that service, restarts no later service, leaves
\* out the dashboard step and publishes error and never success.
C32_RestartFailureEndsPipeline ==
    /\ [](\A t \in Threads :
             LET tk == tasks[t]
                 done == Restarted(tk)
             IN  /\ Len(done) <= Len(NamedServices(tk))
                 /\ done = SubSeq(NamedServices(tk), 1, Len(done))
                 /\ tk.error = "Could not restart service" =>
                        /\ done # <<>>
                        /\ tk.error_arg = done[Len(done)]
                        /\ \A i \in DOMAIN tk.log :
                               /\ tk.log[i].state # "success"
                               /\ tk.log[i].message[1] \notin
                                      {"get_contents", "update_compose",
                                       "update_instance"}
                               /\ tk.log[i].kind = "publish" =>
                                      StepOf(IF tk.log[i].state = "error"
                                             THEN Message("Restarting service", "")
                                             ELSE tk.log[i].message) <= 6
                        /\ (IsFinished(tk) /\ ~tk.stop) =>
                               tk.log[Len(tk.log)] =
                                  Published("error",
                                            Message("Could not restart service",
                                                    done[Len(done)])))
    /\ [][\A t \in Threads :
             tasks[t].error = "Could not restart service" =>
                Restarted(tasks'[t]) = Restarted(tasks[t])]_vars

\* The restart of httpd failed in a deployment with a dashboard and a later
\* service: the task has ended with the error that names httpd.
C32_Witness ==
    \E t \in Threads :
        /\ tasks[t].deployment.services = <<"", "httpd", "db">>
        /\ tasks[t].deployment.bigboat_url # ""
        /\ tasks[t].pc = "done"
        /\ ~tasks[t].stop
        /\ Restarted(tasks[t]) = <<"httpd">>
        /\ tasks[t].log[Len(tasks[t].log)] =
               Published("error", Message("Could not restart service", "httpd"))

\* Terminal events: success, and errors of the pipeline.
TerminalEvents ==
    {<<"success", Message("Finished deployment", "")>>,
     <<"error", Message("Could not run script", "")>>,
     <<"error", Message("Could not update Git repository", "")>>}

\* C33: a terminal event for a name that is delivered a second time leaves
\* the progress map as the first delivery left it, with the same state and
\* message in the record of the name and no thread: so for every terminal
\* event and every record of the map, and so in every step that delivers
\* the event of a terminal record again.
C33_TerminalEventIdempotent ==
    /\ [](\A n \in DOMAIN deploy_progress, event \in TerminalEvents :
             LET first == set_deploy_progress(deploy_progress, n, event[1],
                                              event[2])
                 second == set_deploy_progress(first, n, event[1], event[2])
             IN  /\ second = first
                 /\ second[n] = [state |-> event[1], message |-> event[2],
                                 thread |-> NoThread])
    /\ [][\A n \in Names :
             Redeliver(n) =>
                /\ deploy_progress' = deploy_progress
                /\ deploy_progress'[n].thread = NoThread
                /\ tasks' = tasks]_vars

\* The success event of a task that has ended was delivered again while the
\* record of another name holds a thread.
C33_Witness ==
    /\ request.method = "publish"
    /\ request.name = Given("monetdb-import")
    /\ deploy_progress["monetdb-import"] =
           [state |-> "success", message |-> Message("Finished deployment", ""),
            thread |-> NoThread]
    /\ "test" \in DOMAIN deploy_progress
    /\ deploy_progress["test"].thread # NoThread

\* C34: a task publishes at most one terminal event, success or error, and
\* nothing after it: a terminal event is the last entry of the history of
\* its task, and the history of a task that has one never changes again.
C34_OneTerminalEvent ==
    /\ [](\A t \in Threads :
             LET log == tasks[t].log
             IN  \A i \in DOMAIN log :
                    (log[i].kind = "publish" /\ log[i].state \in Terminal)
                        => /\ i = Len(log)
                           /\ ~IsAlive(tasks[t]))
    /\ [][\A t \in Threads :
             (\E i \in DOMAIN tasks[t].log : tasks[t].log[i].state \in Terminal)
                 => tasks'[t].log = tasks[t].log]_vars

\* A task has ended with an error event after events of progress, and
\* another with success.
C34_Witness ==
    \E t \in Threads :
        /\ tasks[t].pc = "done"
        /\ Len(Publishes(tasks[t].log)) >= 3
        /\ tasks[t].log[Len(tasks[t].log)].state = "error"

\* C35: a GET or POST of deploy for a name that is not in the set of
\* deployments is answered 404, makes and starts no task and leaves the
\* progress map as it is, whether or not the map has a record of the name.
C35_UnknownNameNotDeployed ==
    [][\A h \in Handlers, n \in {"monetdb-import", "test"} :
          ((DeployGet(h, n) \/ DeployPostCheck(h, n))
              /\ n \notin {Deployments[i].name : i \in DOMAIN Deployments}) =>
             /\ response'.status = 404
             /\ tasks' = tasks
             /\ deploy_progress' = deploy_progress
             /\ handlers' = handlers]_vars

\* A POST for the old name, which has a record, was answered 404.
C35_Witness ==
    /\ request.method = "POST"
    /\ request.page = "deploy"
    /\ response.status = 404
    /\ request.name = Given("monetdb-import")
    /\ "monetdb-import" \in DOMAIN deploy_progress
    /\ \A t \in Threads : tasks[t].name # "monetdb-import"

\* The POST of edit just handled found its old deployment and failed.
FailedEdit ==
    /\ Handled("POST", "edit")
    /\ request'.name # NotGiven
    /\ request'.old_name # NotGiven
    /\ request'.old_name[1] \in DeploymentNames(Deployments)
    /\ response'.status = 500
    /\ response'.body \in {"already exists", "KeyError"}

\* C36: a POST of edit that fails after its old deployment was found, for a
\* name that another deployment has or for a missing form parameter, leaves
\* the set in memory as it was before the request, the old deployment in it
\* under the old name, and the key file of the old deployment in place.
C36_FailedEditRestoresSet ==
    [][FailedEdit =>
          LET old == Get(Deployments, request'.old_name[1])
          IN  /\ deployments'.set = Deployments
              /\ Contains(deployments'.set, request'.old_name[1])
              /\ (old.deploy_key \in DOMAIN key_files
                     => old.deploy_key \in DOMAIN key_files')]_vars

\* C37: whenever no create or edit request is being handled, the file of the
\* set holds exactly the deployments of the set in memory, whether the
\* requests handled so far succeeded or failed.
C37_FileEqualsSet ==
    (deployments.loaded /\ \A h \in Handlers : handlers[h].pc = "idle")
        => Read(disk) = deployments.set

\* C38: a handler that looks up a deployment while a POST of edit that keeps
\* the name of this deployment is between its removal and its re-add finds
\* the deployment: it sees the set as before the edit or as after it.
C38_ReaderNeverFindsAbsent ==
    [][\A h \in Handlers, n \in Names :
          ((EditGet(h, n, Given(n)) \/ DeployGet(h, n))
              /\ \E e \in Handlers :
                    /\ handlers[e].pc = "edit"
                    /\ handlers[e].name = n
                    /\ handlers[e].deployment.name = n)
             => response'.status # 404]_vars

\* No two deployments of the set refer to the same key file.
UniqueKeys(set) ==
    \A i, j \in DOMAIN set : i # j => set[i].deploy_key # set[j].deploy_key

\* The key files that the step just taken removed.
RemovedKeys(ops) ==
    {ops[r].path : r \in {w \in DOMAIN ops : ops[w].op = "remove"}}
        \cap {KeyFile(name) : name \in Names}

\* C39: after a create or an edit no two deployments of the set refer to the
\* same key file, and the key files that the request removed to generate or
\* rotate a key are not the key file of another deployment of the set.
C39_KeyFilesNotShared ==
    [][((Handled("POST", "create") \/ Handled("POST", "edit"))
           /\ request'.name # NotGiven) =>
          /\ UniqueKeys(deployments'.set)
          /\ \A i \in DOMAIN deployments'.set :
                deployments'.set[i].name # request'.name[1] =>
                   deployments'.set[i].deploy_key \notin RemovedKeys(fs_ops')]_vars

\* C40: a task that hands an event to the bus has a record of its name in
\* the progress map, so the listener does not fail on a missing record, and
\* a task that was started and has not ended has a record as well: the map
\* is not cleared under a running task.
C40_DeliveryFindsRecord ==
    \A t \in Threads :
        /\ tasks[t].phase = "deliver" => tasks[t].name \in DOMAIN deploy_progress
        /\ IsAlive(tasks[t]) => tasks[t].name \in DOMAIN deploy_progress
====
